---- MODULE Spec2Model ----
(***************************************************************************)
(* Interval arithmetic of Athena (athenet.algorithm.numlike) and the layer *)
(* rules built on it (athenet.algorithm.derest.layers).                    *)
(*                                                                         *)
(* Two realizations of the interval type are modelled side by side:        *)
(* NpInterval (numpy arrays, construction asserts lower - 0.0001 <= upper) *)
(* and TheanoInterval (graph nodes, no construction check).  A tensor is a *)
(* flat sequence of elements; every elementwise numpy/Theano operation is  *)
(* applied per element with scalar broadcasting.                           *)
(*                                                                         *)
(* Numbers are the floats of the program taken as exact values: a number   *)
(* is a pair <<n, d>> meaning n/d, with d > 0 and gcd(n, d) = 1 for a      *)
(* finite value, <<1, 0>> for +inf, <<-1, 0>> for -inf and <<0, 0>> for    *)
(* NaN, which is what IEEE division by zero produces.  Rounding and the    *)
(* sign of zero are not modelled.                                          *)
(***************************************************************************)
EXTENDS Integers, Sequences, FiniteSets, TLC

\* ------------------------------------------------------------------ bounds
\* interval bounds of the inputs range over -MaxVal .. MaxVal
MaxVal == 2
\* a tensor has 1 .. MaxLen elements
MaxLen == 1
\* integer exponents range over -MaxExp .. MaxExp
MaxExp == 3
\* a point tensor has 1 .. PointLen elements
PointLen == 2
\* an interval vector of a dot product has 1 .. DotLen elements
DotLen == 2
\* a constructed interval has 1 .. MaxShape elements (rows, for a matrix)
MaxShape == 2
\* a Derest run has 1 .. MaxLayers layers
MaxLayers == 3
\* local_range of a LRN layer is in 1 .. MaxRange, its beta in 1 .. MaxBeta
MaxRange == 3
\* a LRN layer has 1 .. MaxChannels channels
MaxChannels == 3
MaxBeta == 2
\* pooling: the stride is in 1 .. MaxStride, the padding in 0 .. MaxPad
MaxStride == 3
MaxPad == 1

\* sender: weighted layers of a network
MaxWeighted == 2

\* network: batch sizes 1 .. MaxBatch
MaxBatch == 2

\* ----------------------------------------------------------------- numbers
Sign(n) == IF n > 0 THEN 1 ELSE IF n < 0 THEN -1 ELSE 0

Abs(n) == IF n < 0 THEN -n ELSE n

RECURSIVE Gcd(_, _)
Gcd(m, n) == IF n = 0 THEN m ELSE Gcd(n, m % n)

\* the number n/d in normal form
Num(n, d) ==
    IF d = 0 THEN <<Sign(n), 0>>
    ELSE LET g == Gcd(Abs(n), Abs(d))
             s == Sign(d)
         IN  <<(s * n) \div g, (s * d) \div g>>

Int2Num(n) == <<n, 1>>

NaN == <<0, 0>>
PosInf == <<1, 0>>
NegInf == <<-1, 0>>
Zero == <<0, 1>>
One == <<1, 1>>

IsNaN(x) == x = NaN
IsFinite(x) == x[2] # 0

\* IEEE comparisons: every comparison with NaN is false
Lt(x, y) ==
    /\ ~IsNaN(x)
    /\ ~IsNaN(y)
    /\ IF x[2] = 0 /\ y[2] = 0 THEN x[1] < y[1] ELSE x[1] * y[2] < y[1] * x[2]

Le(x, y) ==
    /\ ~IsNaN(x)
    /\ ~IsNaN(y)
    /\ IF x[2] = 0 /\ y[2] = 0 THEN x[1] <= y[1] ELSE x[1] * y[2] <= y[1] * x[2]

Gt(x, y) == Lt(y, x)

Ge(x, y) == Le(y, x)

Add(x, y) ==
    IF x[2] = 0 /\ y[2] = 0
    THEN (IF x = y THEN x ELSE NaN)
    ELSE Num(x[1] * y[2] + y[1] * x[2], x[2] * y[2])

Negate(x) == <<-x[1], x[2]>>

Sub(x, y) == Add(x, Negate(y))

Mul(x, y) == Num(x[1] * y[1], x[2] * y[2])

\* 1/x; 1/0 is +inf
Inv(x) ==
    IF x[1] > 0 THEN <<x[2], x[1]>>
    ELSE IF x[1] < 0 THEN <<-x[2], -x[1]>>
    ELSE <<x[2], 0>>

Div(x, y) == Mul(x, Inv(y))

\* numpy.minimum / theano.tensor.minimum: NaN propagates
Minimum(x, y) ==
    IF IsNaN(x) \/ IsNaN(y) THEN NaN ELSE IF Le(x, y) THEN x ELSE y

Maximum(x, y) ==
    IF IsNaN(x) \/ IsNaN(y) THEN NaN ELSE IF Le(x, y) THEN y ELSE x

RECURSIVE NatPow(_, _)
NatPow(x, n) == IF n = 0 THEN One ELSE Mul(x, NatPow(x, n - 1))

\* numpy.power / theano.tensor.pow on a float base with an integer exponent
Pow(x, n) == IF n >= 0 THEN NatPow(x, n) ELSE Inv(NatPow(x, -n))

\* ----------------------------------------------------------------- tensors
\* elementwise application with numpy broadcasting of a one-element operand
At(t, i) == IF Len(t) = 1 THEN t[1] ELSE t[i]

BcLen(s, t) == IF Len(s) >= Len(t) THEN Len(s) ELSE Len(t)

\* numpy broadcasting of two flat shapes
Broadcastable(s, t) == Len(s) = Len(t) \/ Len(s) = 1 \/ Len(t) = 1

Map1(F(_), s) == [i \in 1..Len(s) |-> F(s[i])]

Map2(F(_, _), s, t) == [i \in 1..BcLen(s, t) |-> F(At(s, i), At(t, i))]

\* --------------------------------------------------------------- intervals
\* an interval object: its two bound tensors, or the exception its
\* constructor or the operation raised (err # "")
Itv(lower, upper) == [err |-> "", lower |-> lower, upper |-> upper]

Raised(e) == [err |-> e, lower |-> <<>>, upper |-> <<>>]

\* tolerance of the NpInterval construction check
EPS == Num(1, 10000)

\* NpInterval.__init__: assert (lower - 0.0001 <= upper).all()
NpInterval(lower, upper) ==
    IF \A i \in 1..Len(lower) : Le(Sub(lower[i], EPS), upper[i])
    THEN Itv(lower, upper)
    ELSE Raised("AssertionError")

\* TheanoInterval has no __init__ of its own: no check
TheanoInterval(lower, upper) == Itv(lower, upper)

\* a plain number or plain array operand
Plain(val) == [kind |-> "plain", lower |-> val, upper |-> val]

\* an interval operand
Operand(lower, upper) == [kind |-> "interval", lower |-> lower, upper |-> upper]

NoOperand == [kind |-> "none", lower |-> <<>>, upper |-> <<>>]

IsInterval(other) == other.kind = "interval"

\* __mul__ without the cross products lower*upper and upper*lower
NpInterval_mul_NoCross(self, other) ==
    LET ll == Map2(Mul, self.lower, other.lower)
        uu == Map2(Mul, self.upper, other.upper)
    IN  NpInterval(Map2(Minimum, ll, uu), Map2(Maximum, ll, uu))

\* __mul__ that does not order the two products by a plain number
NpInterval_mul_Unsorted(self, other) ==
    IF IsInterval(other)
    THEN LET ll == Map2(Mul, self.lower, other.lower)
             lu == Map2(Mul, self.lower, other.upper)
             ul == Map2(Mul, self.upper, other.lower)
             uu == Map2(Mul, self.upper, other.upper)
             lower == Map2(Minimum, Map2(Minimum, ll, lu), Map2(Minimum, ul, uu))
             upper == Map2(Maximum, Map2(Maximum, ll, lu), Map2(Maximum, ul, uu))
         IN  NpInterval(lower, upper)
    ELSE NpInterval(Map2(Mul, self.lower, other.lower),
                    Map2(Mul, self.upper, other.lower))

\* NpInterval.__mul__
NpInterval_mul(self, other) ==
    IF IsInterval(other)
    THEN LET ll == Map2(Mul, self.lower, other.lower)
             lu == Map2(Mul, self.lower, other.upper)
             ul == Map2(Mul, self.upper, other.lower)
             uu == Map2(Mul, self.upper, other.upper)
             lower == Map2(Minimum, Map2(Minimum, ll, lu), Map2(Minimum, ul, uu))
             upper == Map2(Maximum, Map2(Maximum, ll, lu), Map2(Maximum, ul, uu))
         IN  NpInterval(lower, upper)
    ELSE LET ll == Map2(Mul, self.lower, other.lower)
             uu == Map2(Mul, self.upper, other.lower)
             lower == Map2(Minimum, ll, uu)
             upper == Map2(Maximum, ll, uu)
         IN  NpInterval(lower, upper)

\* TheanoInterval.__mul__
TheanoInterval_mul(self, other) ==
    IF IsInterval(other)
    THEN LET ll == Map2(Mul, self.lower, other.lower)
             lu == Map2(Mul, self.lower, other.upper)
             ul == Map2(Mul, self.upper, other.lower)
             uu == Map2(Mul, self.upper, other.upper)
             l1 == Map2(Minimum, ll, lu)
             l2 == Map2(Minimum, l1, ul)
             l == Map2(Minimum, l2, uu)
             u1 == Map2(Maximum, ll, lu)
             u2 == Map2(Maximum, u1, ul)
             u == Map2(Maximum, u2, uu)
         IN  TheanoInterval(l, u)
    ELSE LET ll == Map2(Mul, self.lower, other.lower)
             uu == Map2(Mul, self.upper, other.lower)
             l == Map2(Minimum, ll, uu)
             u == Map2(Maximum, ll, uu)
         IN  TheanoInterval(l, u)

\* the select of TheanoInterval.__div__: T.switch(cond, x, y)
Switch(cond, x, y) == IF cond THEN x ELSE y

\* NpInterval.__div__
NpInterval_div(self, other) ==
    IF IsInterval(other)
    THEN LET ll == Map2(Div, self.lower, other.lower)
             lu == Map2(Div, self.lower, other.upper)
             ul == Map2(Div, self.upper, other.lower)
             uu == Map2(Div, self.upper, other.upper)
             lower == Map2(Minimum, Map2(Minimum, ll, lu), Map2(Minimum, ul, uu))
             upper == Map2(Maximum, Map2(Maximum, ll, lu), Map2(Maximum, ul, uu))
         IN  NpInterval(lower, upper)
    ELSE LET lower == Map2(Div, self.lower, other.lower)
             upper == Map2(Div, self.upper, other.lower)
         IN  NpInterval(Map2(Minimum, lower, upper), Map2(Maximum, lower, upper))

\* the selection of __div__ with b_lb = a and b, without its second case
TheanoDivElem_OneCase(lower, upper, o_lower, o_upper) ==
    LET ca == Gt(o_lower, Zero)
        cb == Gt(lower, Zero)
        cc == Gt(upper, Zero)
        b_lb == ca /\ cb
        b_ub == ~(ca \/ cb) \/ (ca /\ ~cc)
        la == Switch(ca, lower, upper)
        ua == Switch(ca, upper, lower)
        lb == Switch(b_lb, o_upper, o_lower)
        ub == Switch(b_ub, o_upper, o_lower)
    IN  <<Div(la, lb), Div(ua, ub)>>

\* TheanoInterval.__div__, interval divisor, one element:
\* a = o_lower > 0, b = lower > 0, c = upper > 0
TheanoDivElem(lower, upper, o_lower, o_upper) ==
    LET ca == Gt(o_lower, Zero)
        cb == Gt(lower, Zero)
        cc == Gt(upper, Zero)
        b_lb == (ca /\ cb) \/ (~ca /\ cc)
        b_ub == ~(ca \/ cb) \/ (ca /\ ~cc)
        la == Switch(ca, lower, upper)
        ua == Switch(ca, upper, lower)
        lb == Switch(b_lb, o_upper, o_lower)
        ub == Switch(b_ub, o_upper, o_lower)
    IN  <<Div(la, lb), Div(ua, ub)>>

\* TheanoInterval.__div__
TheanoInterval_div(self, other) ==
    IF IsInterval(other)
    THEN LET n == BcLen(self.lower, other.lower)
             r == [i \in 1..n |->
                     TheanoDivElem(At(self.lower, i), At(self.upper, i),
                                   At(other.lower, i), At(other.upper, i))]
         IN  TheanoInterval([i \in 1..n |-> r[i][1]], [i \in 1..n |-> r[i][2]])
    ELSE IF Gt(other.lower[1], Zero)
         THEN TheanoInterval(Map2(Div, self.lower, other.lower),
                             Map2(Div, self.upper, other.lower))
         ELSE TheanoInterval(Map2(Div, self.upper, other.lower),
                             Map2(Div, self.lower, other.lower))

\* NpInterval.reciprocal
NpInterval_reciprocal(self) ==
    LET upper_reciprocal == Map1(Inv, self.upper)
        lower_reciprocal == Map1(Inv, self.lower)
    IN  NpInterval(Map2(Minimum, upper_reciprocal, lower_reciprocal),
                   Map2(Maximum, upper_reciprocal, lower_reciprocal))

\* TheanoInterval.reciprocal
TheanoInterval_reciprocal(self) ==
    TheanoInterval(Map1(Inv, self.upper), Map1(Inv, self.lower))

\* NpInterval.neg
NpInterval_neg(self) == NpInterval(Map1(Negate, self.upper), Map1(Negate, self.lower))

\* TheanoInterval.neg
TheanoInterval_neg(self) ==
    TheanoInterval(Map1(Negate, self.upper), Map1(Negate, self.lower))


\* NpInterval._has_zero: lower <= 0 and upper >= 0
NpInterval_has_zero(lower, upper) == Le(lower, Zero) /\ Ge(upper, Zero)

\* _has_zero with the two comparisons exchanged
TheanoInterval_has_zero_Swapped(lower, upper) == Gt(lower, Zero) /\ Lt(upper, Zero)

\* TheanoInterval._has_zero: lower < 0 and upper > 0
TheanoInterval_has_zero(lower, upper) == Lt(lower, Zero) /\ Gt(upper, Zero)

\* NpInterval.square
NpInterval_square(self) ==
    LET n == Len(self.lower)
        uu == Map2(Mul, self.upper, self.upper)
        ll == Map2(Mul, self.lower, self.lower)
        lower == [i \in 1..n |->
                    IF NpInterval_has_zero(self.lower[i], self.upper[i])
                    THEN Zero ELSE Minimum(ll[i], uu[i])]
        upper == Map2(Maximum, ll, uu)
    IN  NpInterval(lower, upper)

\* TheanoInterval.square
TheanoInterval_square(self) ==
    LET n == Len(self.lower)
        lsq == Map2(Mul, self.lower, self.lower)
        usq == Map2(Mul, self.upper, self.upper)
        u == Map2(Maximum, lsq, usq)
        l == [i \in 1..n |->
                Switch(TheanoInterval_has_zero(self.lower[i], self.upper[i]),
                       Zero, Minimum(lsq[i], usq[i]))]
    IN  TheanoInterval(l, u)

\* power whose even positive branch has no zero test
NpInterval_power_NoZero(self, exponent) ==
    LET n == Len(self.lower)
        le == [i \in 1..n |-> Pow(self.lower[i], exponent)]
        ue == [i \in 1..n |-> Pow(self.upper[i], exponent)]
        l == IF exponent > 0
             THEN IF exponent % 2 = 0 THEN Map2(Minimum, le, ue) ELSE le
             ELSE IF exponent % 2 = 0 THEN Map2(Minimum, le, ue) ELSE ue
        u == IF exponent > 0
             THEN IF exponent % 2 = 0 THEN Map2(Maximum, le, ue) ELSE ue
             ELSE IF exponent % 2 = 0 THEN Map2(Maximum, le, ue) ELSE le
    IN  NpInterval(l, u)

\* NpInterval.power, exponent an int (the isinstance(exponent, (int, long))
\* branch)
NpInterval_power(self, exponent) ==
    LET n == Len(self.lower)
        le == [i \in 1..n |-> Pow(self.lower[i], exponent)]
        ue == [i \in 1..n |-> Pow(self.upper[i], exponent)]
        l == IF exponent > 0
             THEN IF exponent % 2 = 0
                  THEN [i \in 1..n |->
                          IF NpInterval_has_zero(self.lower[i], self.upper[i])
                          THEN Zero ELSE Minimum(le[i], ue[i])]
                  ELSE le
             ELSE IF exponent % 2 = 0 THEN Map2(Minimum, le, ue) ELSE ue
        u == IF exponent > 0
             THEN IF exponent % 2 = 0 THEN Map2(Maximum, le, ue) ELSE ue
             ELSE IF exponent % 2 = 0 THEN Map2(Maximum, le, ue) ELSE le
    IN  NpInterval(l, u)

\* power that keeps the order of the bounds for a negative odd exponent
TheanoInterval_power_NoFlip(self, exponent) ==
    LET n == Len(self.lower)
        le == [i \in 1..n |-> Pow(self.lower[i], exponent)]
        ue == [i \in 1..n |-> Pow(self.upper[i], exponent)]
        l == IF exponent > 0
             THEN IF exponent % 2 = 0
                  THEN [i \in 1..n |->
                          Switch(TheanoInterval_has_zero(self.lower[i], self.upper[i]),
                                 Zero, Minimum(le[i], ue[i]))]
                  ELSE le
             ELSE IF exponent % 2 = 0 THEN Map2(Minimum, le, ue) ELSE le
        u == IF exponent > 0
             THEN IF exponent % 2 = 0 THEN Map2(Maximum, le, ue) ELSE ue
             ELSE IF exponent % 2 = 0 THEN Map2(Maximum, le, ue) ELSE ue
    IN  TheanoInterval(l, u)

\* TheanoInterval.power, exponent an int
TheanoInterval_power(self, exponent) ==
    LET n == Len(self.lower)
        le == [i \in 1..n |-> Pow(self.lower[i], exponent)]
        ue == [i \in 1..n |-> Pow(self.upper[i], exponent)]
        l == IF exponent > 0
             THEN IF exponent % 2 = 0
                  THEN [i \in 1..n |->
                          Switch(TheanoInterval_has_zero(self.lower[i], self.upper[i]),
                                 Zero, Minimum(le[i], ue[i]))]
                  ELSE le
             ELSE IF exponent % 2 = 0 THEN Map2(Minimum, le, ue) ELSE ue
        u == IF exponent > 0
             THEN IF exponent % 2 = 0 THEN Map2(Maximum, le, ue) ELSE ue
             ELSE IF exponent % 2 = 0 THEN Map2(Maximum, le, ue) ELSE le
    IN  TheanoInterval(l, u)

\* NpInterval.max
NpInterval_max(self, other) ==
    IF IsInterval(other)
    THEN NpInterval(Map2(Maximum, self.lower, other.lower),
                    Map2(Maximum, self.upper, other.upper))
    ELSE NpInterval(Map2(Maximum, self.lower, other.lower),
                    Map2(Maximum, self.upper, other.lower))

\* TheanoInterval.max
TheanoInterval_max(self, other) ==
    IF IsInterval(other)
    THEN TheanoInterval(Map2(Maximum, self.lower, other.lower),
                        Map2(Maximum, self.upper, other.upper))
    ELSE TheanoInterval(Map2(Maximum, self.lower, other.lower),
                        Map2(Maximum, self.upper, other.lower))

\* abs whose upper bound forgets to negate the lower bound
NpInterval_abs_NoNeg(self) ==
    LET n == Len(self.lower)
        lower == [i \in 1..n |->
                    IF Gt(self.lower[i], Zero) THEN self.lower[i]
                    ELSE IF Lt(self.upper[i], Zero) THEN Negate(self.upper[i])
                    ELSE Zero]
        upper == Map2(Maximum, self.lower, self.upper)
    IN  NpInterval(lower, upper)

\* NpInterval.abs
NpInterval_abs(self) ==
    LET n == Len(self.lower)
        lower == [i \in 1..n |->
                    IF Gt(self.lower[i], Zero) THEN self.lower[i]
                    ELSE IF Lt(self.upper[i], Zero) THEN Negate(self.upper[i])
                    ELSE Zero]
        upper == Map2(Maximum, Map1(Negate, self.lower), self.upper)
    IN  NpInterval(lower, upper)

\* abs whose lower bound is min(|lo|, |hi|) also where the interval
\* straddles zero
TheanoInterval_abs_NoZero(self) ==
    LET n == Len(self.lower)
        lower == [i \in 1..n |->
                    Switch(Gt(self.lower[i], Zero), self.lower[i],
                           Switch(Lt(self.upper[i], Zero), Negate(self.upper[i]),
                                  Minimum(Negate(self.lower[i]), self.upper[i])))]
        upper == Map2(Maximum, Map1(Negate, self.lower), self.upper)
    IN  TheanoInterval(lower, upper)

\* TheanoInterval.abs
TheanoInterval_abs(self) ==
    LET n == Len(self.lower)
        lower == [i \in 1..n |->
                    Switch(Gt(self.lower[i], Zero), self.lower[i],
                           Switch(Lt(self.upper[i], Zero), Negate(self.upper[i]), Zero))]
        upper == Map2(Maximum, Map1(Negate, self.lower), self.upper)
    IN  TheanoInterval(lower, upper)


\* ---------------------------------------------------------------- matrices
\* a plain matrix is a sequence of rows
Rows(W) == Len(W)

Cols(W) == Len(W[1])

MapMat(F(_), W) == [i \in 1..Rows(W) |-> [j \in 1..Cols(W) |-> F(W[i][j])]]

Transpose(W) == [j \in 1..Cols(W) |-> [i \in 1..Rows(W) |-> W[i][j]]]

RECURSIVE SumTo(_, _)
SumTo(f, n) == IF n = 0 THEN Zero ELSE Add(SumTo(f, n - 1), f[n])

\* numpy.dot / theano.tensor.dot of a vector and a matrix
Dot(v, W) ==
    [j \in 1..Cols(W) |-> SumTo([i \in 1..Len(v) |-> Mul(v[i], W[i][j])], Len(v))]

MinZero(w) == Minimum(w, Zero)

MaxZero(w) == Maximum(w, Zero)

\* dot without the sign split: each bound is multiplied by all of other
NpInterval_dot_NoSplit(self, other) ==
    NpInterval(Dot(self.lower, other), Dot(self.upper, other))

\* NpInterval.dot
NpInterval_dot(self, other) ==
    LET other_negative == MapMat(MinZero, other)
        other_positive == MapMat(MaxZero, other)
        lower_pos_dot == Dot(self.lower, other_positive)
        lower_neg_dot == Dot(self.lower, other_negative)
        upper_pos_dot == Dot(self.upper, other_positive)
        upper_neg_dot == Dot(self.upper, other_negative)
    IN  NpInterval(Map2(Add, lower_pos_dot, upper_neg_dot),
                   Map2(Add, upper_pos_dot, lower_neg_dot))

\* TheanoInterval.dot
TheanoInterval_dot(self, other) ==
    LET lower == self.lower
        upper == self.upper
        other_negative == MapMat(MinZero, other)
        other_positive == MapMat(MaxZero, other)
        lower_pos_dot == Dot(lower, other_positive)
        lower_neg_dot == Dot(lower, other_negative)
        upper_pos_dot == Dot(upper, other_positive)
        upper_neg_dot == Dot(upper, other_negative)
        res_lower == Map2(Add, lower_pos_dot, upper_neg_dot)
        res_upper == Map2(Add, upper_pos_dot, lower_neg_dot)
    IN  TheanoInterval(res_lower, res_upper)

\* ------------------------------------------------- the two realizations
\* method dispatch on the class of the receiver
Classes == {"NpInterval", "TheanoInterval"}

Interval_mul(cls, self, other) ==
    IF cls = "NpInterval" THEN NpInterval_mul(self, other)
    ELSE TheanoInterval_mul(self, other)

Interval_abs(cls, self) ==
    IF cls = "NpInterval" THEN NpInterval_abs(self) ELSE TheanoInterval_abs(self)

Interval_dot(cls, self, other) ==
    IF cls = "NpInterval" THEN NpInterval_dot(self, other)
    ELSE TheanoInterval_dot(self, other)

Construct(cls, lower, upper) ==
    IF cls = "NpInterval" THEN NpInterval(lower, upper)
    ELSE TheanoInterval(lower, upper)

\* Interval.__add__ of the base class: bounds add componentwise (the inverse
\* of NpInterval._antiadd)
Interval_add(cls, self, other) ==
    Construct(cls, Map2(Add, self.lower, other.lower),
                   Map2(Add, self.upper, other.upper))

\* NpInterval.op_relu
NpInterval_op_relu(self) == Raised("NotImplementedError")

\* TheanoInterval.op_relu
TheanoInterval_op_relu(self) ==
    LET lower == Map1(MaxZero, self.lower)
        upper == Map1(MaxZero, self.upper)
    IN  TheanoInterval(lower, upper)

Interval_op_relu(cls, self) ==
    IF cls = "NpInterval" THEN NpInterval_op_relu(self)
    ELSE TheanoInterval_op_relu(self)

\* the 0.5 of a_relu
Half == Num(1, 2)

\* a_relu whose fallback adds x instead of |x|
a_relu_NoAbs(cls, layer_input) ==
    LET res == Interval_op_relu(cls, layer_input)
    IN  IF res.err = "NotImplementedError"
        THEN Interval_mul(cls,
                 Interval_add(cls, layer_input, layer_input),
                 Plain(<<Half>>))
        ELSE res

\* a_relu (derest/layers/relu.py)
a_relu(cls, layer_input) ==
    LET res == Interval_op_relu(cls, layer_input)
    IN  IF res.err = "NotImplementedError"
        THEN Interval_mul(cls,
                 Interval_add(cls, layer_input, Interval_abs(cls, layer_input)),
                 Plain(<<Half>>))
        ELSE res

\* NpInterval.op_d_relu
NpInterval_op_d_relu(self, activation) == Raised("NotImplementedError")

\* op_d_relu of the interval class the derivative tests run on
\* (athenet.algorithm.numlike.Interval), one element: the impact passes
\* where the activation is positive, is zero where it is negative, and is
\* widened to zero where the activation interval reaches zero
OpDReluElem(out_l, out_u, act_l, act_u) ==
    IF Gt(act_l, Zero) THEN <<out_l, out_u>>
    ELSE IF Lt(act_u, Zero) THEN <<Zero, Zero>>
    ELSE <<Minimum(out_l, Zero), Maximum(out_u, Zero)>>

Interval_op_d_relu(self, activation) ==
    LET n == BcLen(self.lower, activation.lower)
        r == [i \in 1..n |->
                OpDReluElem(At(self.lower, i), At(self.upper, i),
                            At(activation.lower, i), At(activation.upper, i))]
    IN  Itv([i \in 1..n |-> r[i][1]], [i \in 1..n |-> r[i][2]])

Op_d_relu(cls, self, activation) ==
    IF cls = "NpInterval" THEN NpInterval_op_d_relu(self, activation)
    ELSE Interval_op_d_relu(self, activation)

\* d_relu with its two arguments exchanged
d_relu_Swapped(cls, output, activation) == Op_d_relu(cls, activation, output)

\* d_relu (derest/layers/relu.py)
d_relu(cls, output, activation) == Op_d_relu(cls, output, activation)

\* dropout that scales by p_dropout instead of 1 - p_dropout
d_dropout_ScaleByP(cls, output, p_dropout) ==
    Interval_mul(cls, output, Plain(<<p_dropout>>))

\* DerestDropoutLayer.d_dropout: output * (1.0 - p_dropout)
d_dropout(cls, output, p_dropout) ==
    Interval_mul(cls, output, Plain(<<Sub(One, p_dropout)>>))

\* DerestDropoutLayer.a_dropout: layer_input * (1.0 - p_dropout)
a_dropout(cls, layer_input, p_dropout) ==
    Interval_mul(cls, layer_input, Plain(<<Sub(One, p_dropout)>>))

\* d_fully_connected (derest derivative of a fully connected layer): the dot
\* of the output impact with the transposed weights; the reshape to the
\* input shape does not change the flat element order
d_fully_connected(cls, output, weights) ==
    Interval_dot(cls, output, Transpose(weights))


\* ------------------------------------------------------------ constructors
\* None of Python
None == <<>>

\* x > y of Python 2 on floats and None: None is smaller than every number
PyGt(x, y) ==
    IF x = None THEN FALSE
    ELSE IF y = None THEN TRUE
    ELSE Gt(x, y)

\* numpy.full(shp, val) for a shape of one dimension
Full(shp, val) == [i \in 1..shp |-> val]

\* the preset bound by the neutral flag; cls holds the class attributes
\* NEUTRAL_LOWER, NEUTRAL_UPPER, DEFAULT_LOWER, DEFAULT_UPPER
PresetLower(cls, neutral) == IF neutral THEN cls.NEUTRAL_LOWER ELSE cls.DEFAULT_LOWER

PresetUpper(cls, neutral) == IF neutral THEN cls.NEUTRAL_UPPER ELSE cls.DEFAULT_UPPER

\* NpInterval.from_shape: the missing values are defaulted, then compared
NpInterval_from_shape(cls, shp, neutral, lower_val, upper_val) ==
    LET lv == IF lower_val = None THEN PresetLower(cls, neutral) ELSE lower_val
        uv == IF upper_val = None THEN PresetUpper(cls, neutral) ELSE upper_val
    IN  IF PyGt(lv, uv) /\ (lv # PosInf \/ uv # NegInf)
        THEN Raised("ValueError")
        ELSE NpInterval(Full(shp, lv), Full(shp, uv))

\* TheanoInterval.from_shape: the values are compared as passed (None
\* included), then defaulted
TheanoInterval_from_shape(cls, shp, neutral, lower_val, upper_val) ==
    IF PyGt(lower_val, upper_val) /\ (lower_val # PosInf \/ upper_val # NegInf)
    THEN Raised("ValueError")
    ELSE LET lv == IF lower_val = None THEN PresetLower(cls, neutral) ELSE lower_val
             uv == IF upper_val = None THEN PresetUpper(cls, neutral) ELSE upper_val
         IN  TheanoInterval(Full(shp, lv), Full(shp, uv))

\* numpy.eye(n): a matrix as the sequence of its rows
NumpyEye_Ones(n) == [i \in 1..n |-> [j \in 1..n |-> One]]

NumpyEye(n) == [i \in 1..n |-> [j \in 1..n |-> IF i = j THEN One ELSE Zero]]

\* NpInterval.__init__ on matrices
NpInterval2D(lower, upper) ==
    IF \A i \in 1..Len(lower) : \A j \in 1..Len(lower[i]) :
            Le(Sub(lower[i][j], EPS), upper[i][j])
    THEN Itv(lower, upper)
    ELSE Raised("AssertionError")

\* NpInterval.derest_output
NpInterval_derest_output(n_outputs) ==
    LET np_matrix == NumpyEye(n_outputs)
    IN  NpInterval2D(np_matrix, np_matrix)

\* TheanoInterval.derest_output
TheanoInterval_derest_output(n_outputs) ==
    LET np_matrix == NumpyEye(n_outputs)
    IN  TheanoInterval(np_matrix, np_matrix)

\* -------------------------------------------------------------- derest run
\* a layer of a Derest run: its kind, its p_dropout (dropout only) and the
\* activation stored by the forward pass
DerestLayer(kind, p_dropout) ==
    [kind |-> kind, p_dropout |-> p_dropout, activation |-> None]

\* DerestReluLayer.count_activation
DerestReluLayer_count_activation(cls, self, input) == a_relu(cls, input)

\* count_derivatives that asserts that no activation is stored
DerestReluLayer_count_derivatives_AssertNone(cls, self, output) ==
    IF self.activation # None THEN Raised("AssertionError")
    ELSE d_relu(cls, output, self.activation)

\* DerestReluLayer.count_derivatives
DerestReluLayer_count_derivatives(cls, self, output) ==
    IF self.activation = None THEN Raised("AssertionError")
    ELSE d_relu(cls, output, self.activation)

\* DerestDropoutLayer.count_activation
DerestDropoutLayer_count_activation(cls, self, layer_input) ==
    a_dropout(cls, layer_input, self.p_dropout)

\* DerestDropoutLayer.count_derivatives
DerestDropoutLayer_count_derivatives(cls, self, layer_output) ==
    d_dropout(cls, layer_output, self.p_dropout)

\* layer.count_activation(input), by the class of the layer
count_activation(cls, self, input) ==
    IF self.kind = "relu" THEN DerestReluLayer_count_activation(cls, self, input)
    ELSE DerestDropoutLayer_count_activation(cls, self, input)

\* layer.count_derivatives(output, input_shape), by the class of the layer
count_derivatives(cls, self, output) ==
    IF self.kind = "relu" THEN DerestReluLayer_count_derivatives(cls, self, output)
    ELSE DerestDropoutLayer_count_derivatives(cls, self, output)

\* the seed of the backward pass of a network of one output: the row of
\* derest_output(1)
DerestSeed(cls) ==
    LET out == IF cls = "NpInterval" THEN NpInterval_derest_output(1)
               ELSE TheanoInterval_derest_output(1)
    IN  Itv(out.lower[1], out.upper[1])

\* a Derest run before its forward pass
NewRun(cls, layers, input) ==
    [cls |-> cls, layers |-> layers, phase |-> "activations", at |-> 1,
     value |-> input, err |-> "", calls |-> <<>>]

\* one step of the forward pass: the rule of layer `at` on the interval
\* threaded so far, which is stored as the layer's activation; after the last
\* layer the backward pass starts from the seed
StepActivation(run) ==
    LET i == run.at
        last == i = Len(run.layers)
        out == count_activation(run.cls, run.layers[i], run.value)
        called == Append(run.calls, <<"count_activation", i>>)
    IN  IF out.err # ""
        THEN [run EXCEPT !.phase = "failed", !.err = out.err, !.calls = called]
        ELSE [run EXCEPT !.layers[i].activation = run.value,
                         !.value = IF last THEN DerestSeed(run.cls) ELSE out,
                         !.at = IF last THEN i ELSE i + 1,
                         !.phase = IF last THEN "derivatives" ELSE "activations",
                         !.calls = called]

\* one step of the backward pass: the derivative rule of layer `at` on the
\* impact threaded so far
StepDerivatives(run) ==
    LET i == run.at
        out == count_derivatives(run.cls, run.layers[i], run.value)
        called == Append(run.calls, <<"count_derivatives", i>>)
    IN  IF out.err # ""
        THEN [run EXCEPT !.phase = "failed", !.err = out.err, !.calls = called]
        ELSE [run EXCEPT !.value = out,
                         !.at = i - 1,
                         !.phase = IF i = 1 THEN "done" ELSE "derivatives",
                         !.calls = called]

\* ----------------------------------------------------------------- softmax
\* the exponential of an integer-valued float; the base is taken as 2 so
\* that every value is an exact rational (positivity, monotonicity and
\* exp(x + y) = exp(x) * exp(y) hold as for the base e)
Exp(x) == Pow(Num(2, 1), x[1])

\* Interval.__sub__ of the base class with a number: both bounds shift
Interval_sub(self, c) ==
    Itv([k \in 1..Len(self.lower) |-> Sub(self.lower[k], c)],
        [k \in 1..Len(self.upper) |-> Sub(self.upper[k], c)])

\* Interval.exp of the base class: exp is increasing
Interval_exp(self) ==
    Itv([k \in 1..Len(self.lower) |-> Exp(self.lower[k])],
        [k \in 1..Len(self.upper) |-> Exp(self.upper[k])])

\* self[j]
GetItem(self, j) == Itv(<<self.lower[j]>>, <<self.upper[j]>>)

\* TheanoInterval.__setitem__ with an interval of one number
TheanoInterval_setitem(self, at, other) ==
    Itv([self.lower EXCEPT ![at] = other.lower],
        [self.upper EXCEPT ![at] = other.upper])

\* the inner loop of op_softmax: sum + input[j'] for the j' <= j, j' # i
RECURSIVE SoftmaxSum(_, _, _, _)
SoftmaxSum(sum, input, i, j) ==
    IF j = 0 THEN sum
    ELSE LET before == SoftmaxSum(sum, input, i, j - 1)
         IN  IF j # i
             THEN Interval_add("TheanoInterval", before, GetItem(input, j))
             ELSE before

\* one iteration whose upper bound divides by the largest sum of the others
SoftmaxItem_UpperSum(cls, self, input_shp, i) ==
    LET input_low == Interval_exp(Interval_sub(self, self.upper[i]))
        input_upp == Interval_exp(Interval_sub(self, self.lower[i]))
        sum_low == SoftmaxSum(TheanoInterval_from_shape(cls, 1, TRUE, None, None),
                              input_low, i, input_shp)
        sum_upp == SoftmaxSum(TheanoInterval_from_shape(cls, 1, TRUE, None, None),
                              input_upp, i, input_shp)
        upper_counter_low == input_low.upper[i]
        lower_counter_upp == input_upp.lower[i]
        upper_low == Div(upper_counter_low, Add(sum_low.upper[1], upper_counter_low))
        lower_upp == Div(lower_counter_upp, Add(sum_upp.upper[1], lower_counter_upp))
    IN  TheanoInterval(lower_upp, upper_low)

\* one iteration of the outer loop of op_softmax: the interval of output i
SoftmaxItem(cls, self, input_shp, i) ==
    LET input_low == Interval_exp(Interval_sub(self, self.upper[i]))
        input_upp == Interval_exp(Interval_sub(self, self.lower[i]))
        sum_low == SoftmaxSum(TheanoInterval_from_shape(cls, 1, TRUE, None, None),
                              input_low, i, input_shp)
        sum_upp == SoftmaxSum(TheanoInterval_from_shape(cls, 1, TRUE, None, None),
                              input_upp, i, input_shp)
        upper_counter_low == input_low.upper[i]
        lower_counter_upp == input_upp.lower[i]
        upper_low == Div(upper_counter_low, Add(sum_low.lower[1], upper_counter_low))
        lower_upp == Div(lower_counter_upp, Add(sum_upp.upper[1], lower_counter_upp))
    IN  TheanoInterval(lower_upp, upper_low)

\* the result of op_softmax after the iterations 1 .. i of its outer loop
RECURSIVE SoftmaxLoop(_, _, _, _)
SoftmaxLoop(cls, self, input_shp, i) ==
    IF i = 0 THEN TheanoInterval_from_shape(cls, input_shp, TRUE, None, None)
    ELSE TheanoInterval_setitem(SoftmaxLoop(cls, self, input_shp, i - 1), i,
                                SoftmaxItem(cls, self, input_shp, i))

\* TheanoInterval.op_softmax
TheanoInterval_op_softmax(cls, self, input_shp) ==
    SoftmaxLoop(cls, self, input_shp, input_shp)

\* NpInterval.op_softmax
NpInterval_op_softmax(self, input_shp) == Raised("NotImplementedError")

\* --------------------------------------------------------------------- LRN
\* The LRN rule works position by position; the model has one position per
\* channel (height = width = 1), so a tensor is the sequence of its channels.

IsSquare(n) == \E r \in 0..n : r * r = n

IntRoot(n) == CHOOSE r \in 0..n : r * r = n

\* theano.tensor.sqrt. The root of a value that is not the square of a
\* rational is irrational: it is equal to no bound of a point interval, which
\* is all that in_range asks of it on the point inputs the model draws; it is
\* represented as NaN.
Sqrt(v) ==
    IF IsNaN(v) \/ Lt(v, Zero) THEN NaN
    ELSE IF v = PosInf THEN PosInf
    ELSE IF IsSquare(v[1]) /\ IsSquare(v[2]) THEN <<IntRoot(v[1]), IntRoot(v[2])>>
    ELSE NaN

\* x[from : from + n] for a slice start counted from 0
Slice(x, from, n) ==
    Itv([p \in 1..n |-> x.lower[from + p]], [p \in 1..n |-> x.upper[from + p]])

\* extra_channels of op_norm: half channels of the neutral pair on each side
\* of the squares
ExtraChannels(cls, sq, n_channels, half) ==
    LET fresh == TheanoInterval_from_shape(cls, n_channels + 2 * half, TRUE, None, None)
        inner == (half + 1)..(half + n_channels)
    IN  Itv([p \in 1..(n_channels + 2 * half) |->
                IF p \in inner THEN sq.lower[p - half] ELSE fresh.lower[p]],
            [p \in 1..(n_channels + 2 * half) |->
                IF p \in inner THEN sq.upper[p - half] ELSE fresh.upper[p]])

\* the loop of op_norm over the window: s after the iterations 0 .. i - 1
RECURSIVE NormSumLoop(_, _, _, _, _)
NormSumLoop(s, extra_channels, n_channels, half, i) ==
    IF i = 0 THEN s
    ELSE LET before == NormSumLoop(s, extra_channels, n_channels, half, i - 1)
         IN  IF i - 1 # half
             THEN Interval_add("TheanoInterval", before,
                               Slice(extra_channels, i - 1, n_channels))
             ELSE before

\* s of op_norm: for each channel the sum of the squares of its neighbours
\* (half = local_range / 2 on integers)
NormSum(cls, self, n_channels, local_range) ==
    NormSumLoop(TheanoInterval_from_shape(cls, n_channels, TRUE, None, None),
                ExtraChannels(cls, TheanoInterval_square(self), n_channels,
                              local_range \div 2),
                n_channels, local_range \div 2, local_range)

\* c = s * alpha + k of op_norm
NormC(s, k, alpha) ==
    Interval_add("TheanoInterval", TheanoInterval_mul(s, Plain(<<alpha>>)),
                 Itv(<<k>>, <<k>>))

\* norm of op_norm, beta an integer
NormFn(arg_x, arg_c, alpha, beta) ==
    Div(arg_x, Pow(Add(arg_c, Mul(alpha, Mul(arg_x, arg_x))), beta))

\* in_range that accepts every candidate
InRange_Always(lower, upper, val) == TRUE

\* in_range of op_norm
InRange(lower, upper, val) == Le(lower, val) /\ Le(val, upper)

\* c_extr_from_x of op_norm
c_extr_from_x(arg_x, alpha, beta) ==
    Mul(Mul(arg_x, arg_x), Mul(Int2Num(2 * beta - 1), alpha))

\* x_extr_from_c of op_norm
x_extr_from_c(arg_c, alpha, beta) ==
    Sqrt(Div(arg_c, Mul(Int2Num(2 * beta - 1), alpha)))

\* res.lower after T.minimum was folded over the values S, res.upper
\* after T.maximum was: a NaN among the values propagates
FoldMinimum(lower, S) ==
    IF \E v \in S \cup {lower} : IsNaN(v) THEN NaN
    ELSE CHOOSE v \in S \cup {lower} : \A w \in S \cup {lower} : Le(v, w)

FoldMaximum(upper, S) ==
    IF \E v \in S \cup {upper} : IsNaN(v) THEN NaN
    ELSE CHOOSE v \in S \cup {upper} : \A w \in S \cup {upper} : Le(w, v)

\* the points op_norm evaluates norm at, for one element x = [xl, xu],
\* c = [cl, cu]: the four corners and the candidate extrema whose condition
\* holds
NormPoints(xl, xu, cl, cu, x_extr_l, x_extr_u, c_extr_l, c_extr_u) ==
    {<<xl, cl>>, <<xl, cu>>, <<xu, cl>>, <<xu, cu>>}
        \cup {m \in {<<Zero, cl>>, <<Zero, cu>>, <<x_extr_l, cl>>, <<x_extr_u, cu>>,
                     <<Mul(x_extr_l, Int2Num(-1)), cl>>,
                     <<Mul(x_extr_u, Int2Num(-1)), cu>>} : InRange(xl, xu, m[1])}
        \cup {m \in {<<xl, c_extr_l>>, <<xu, c_extr_u>>} : InRange(cl, cu, m[2])}

\* the bounds folded over the values of norm, from res = (+inf, -inf)
NormBounds(res, values) ==
    <<FoldMinimum(res.lower[1], values), FoldMaximum(res.upper[1], values)>>

\* op_norm on one element
NormElem(cls, xl, xu, cl, cu, alpha, beta) ==
    NormBounds(TheanoInterval_from_shape(cls, 1, TRUE, PosInf, NegInf),
               {NormFn(m[1], m[2], alpha, beta) :
                    m \in NormPoints(xl, xu, cl, cu,
                                     x_extr_from_c(cl, alpha, beta),
                                     x_extr_from_c(cu, alpha, beta),
                                     c_extr_from_x(xl, alpha, beta),
                                     c_extr_from_x(xu, alpha, beta))})

\* the part of op_norm after c: res, element by element
NormRes(cls, x, c, n_channels, alpha, beta) ==
    Itv([ch \in 1..n_channels |->
            NormElem(cls, x.lower[ch], x.upper[ch], c.lower[ch], c.upper[ch],
                     alpha, beta)[1]],
        [ch \in 1..n_channels |->
            NormElem(cls, x.lower[ch], x.upper[ch], c.lower[ch], c.upper[ch],
                     alpha, beta)[2]])

\* TheanoInterval.op_norm with input_shape = (n_channels, 1, 1); alpha is
\* divided by local_range first, and c is computed once for all elements
TheanoInterval_op_norm(cls, self, n_channels, local_range, k, alpha, beta) ==
    CHOOSE res \in
        {NormRes(cls, self, c, n_channels, Div(alpha, Int2Num(local_range)), beta) :
            c \in {NormC(NormSum(cls, self, n_channels, local_range), k,
                         Div(alpha, Int2Num(local_range)))}} : TRUE

\* NpInterval.op_norm
NpInterval_op_norm(self, n_channels, local_range, k, alpha, beta) ==
    Raised("NotImplementedError")

\* ----------------------------------------------------------------- pooling
\* The impact rules of the pooling layers on one channel of one batch.  A
\* h x w tensor is the flat row-major sequence of its elements.

\* element (r, c) of a tensor with w columns
Flat(r, c, w) == (r - 1) * w + c

\* number of windows along one axis of n elements: positions 0, stride, ...
\* while the window lies inside the padded axis
PoolOut(n, pad, f, s) == ((n + 2 * pad - f) \div s) + 1

\* reshape_for_padding: the padded tensor, the value outside the input is fill
Padded(t, h, w, pad_h, pad_w, fill) ==
    [p \in 1..((h + 2 * pad_h) * (w + 2 * pad_w)) |->
        LET r == ((p - 1) \div (w + 2 * pad_w)) + 1 - pad_h
            c == ((p - 1) % (w + 2 * pad_w)) + 1 - pad_w
        IN  IF r \in 1..h /\ c \in 1..w THEN t[Flat(r, c, w)] ELSE fill]

Unpadded_KeepCorner(t, h, w, pad_h, pad_w) ==
    [p \in 1..(h * w) |->
        t[Flat(((p - 1) \div w) + 1, ((p - 1) % w) + 1, w + 2 * pad_w)]]

\* the result without its padding frame
Unpadded(t, h, w, pad_h, pad_w) ==
    [p \in 1..(h * w) |->
        t[Flat(((p - 1) \div w) + 1 + pad_h, ((p - 1) % w) + 1 + pad_w,
               w + 2 * pad_w)]]

\* positions (in the padded tensor of width wp) of the window of output (i, j)
Window(i, j, wp, poolsize, stride) ==
    {Flat((i - 1) * stride[1] + dh, (j - 1) * stride[2] + dw, wp) :
        dh \in 1..poolsize[1], dw \in 1..poolsize[2]}

\* the windows, along one axis, that contain the padded coordinate x: window i
\* starts after (i - 1) * s elements and has f elements
Covering(x, n_out, f, s) ==
    {i \in 1..n_out : (i - 1) * s < x /\ x <= (i - 1) * s + f}

\* the largest lower bound in a window
MaxOver(t, S) ==
    CHOOSE m \in {t[p] : p \in S} : \A q \in S : Le(t[q], m)

AvgShare_Whole(self, k, poolsize) ==
    [lower |-> self.lower[k], upper |-> self.upper[k]]

\* avg pool: every position of the window receives impact / window area
AvgShare(self, k, poolsize) ==
    [lower |-> Div(self.lower[k], Int2Num(poolsize[1] * poolsize[2])),
     upper |-> Div(self.upper[k], Int2Num(poolsize[1] * poolsize[2]))]

\* max pool: a position that may hold the maximum of its window (its upper
\* bound reaches the largest lower bound of the window) receives the impact
\* widened to contain 0, any other position receives nothing
MaxShare(self, k, act, S, p) ==
    IF Le(MaxOver(act.lower, S), act.upper[p])
    THEN [lower |-> Minimum(Zero, self.lower[k]),
          upper |-> Maximum(Zero, self.upper[k])]
    ELSE [lower |-> Zero, upper |-> Zero]

\* what the window of output (i, j) adds to the position p of the padded input
PoolShare(mode, self, act, i, j, ow, wp, poolsize, stride, p) ==
    IF mode = "max"
    THEN MaxShare(self, Flat(i, j, ow), act, Window(i, j, wp, poolsize, stride), p)
    ELSE AvgShare(self, Flat(i, j, ow), poolsize)

\* the sum of the shares of the windows in I \X J at the position p
RECURSIVE PoolSum(_, _, _, _, _, _, _, _, _, _)
PoolSum(mode, self, act, IJ, ow, wp, poolsize, stride, p, sum) ==
    IF IJ = {} THEN sum
    ELSE LET ij == CHOOSE x \in IJ : TRUE
             share == PoolShare(mode, self, act, ij[1], ij[2], ow, wp, poolsize, stride, p)
         IN  PoolSum(mode, self, act, IJ \ {ij}, ow, wp, poolsize, stride, p,
                     [lower |-> Add(sum.lower, share.lower),
                      upper |-> Add(sum.upper, share.upper)])

\* Interval.op_d_max_pool / op_d_avg_pool: self is the impact of the outputs,
\* activation the input of the layer, input_shape = <<h, w>>.  The result
\* starts neutral, every window adds its shares to its positions, and the
\* padding frame is cut off.
Interval_op_d_pool(mode, self, activation, input_shape, poolsize, stride, padding) ==
    LET h == input_shape[1]
        w == input_shape[2]
        hp == h + 2 * padding[1]
        wp == w + 2 * padding[2]
        oh == PoolOut(h, padding[1], poolsize[1], stride[1])
        ow == PoolOut(w, padding[2], poolsize[2], stride[2])
        act == [lower |-> Padded(activation.lower, h, w, padding[1], padding[2], Zero),
                upper |-> Padded(activation.upper, h, w, padding[1], padding[2], Zero)]
    IN  CHOOSE out \in
            {Itv(Unpadded([p \in 1..(hp * wp) |-> res[p].lower], h, w, padding[1], padding[2]),
                 Unpadded([p \in 1..(hp * wp) |-> res[p].upper], h, w, padding[1], padding[2])) :
                res \in {[p \in 1..(hp * wp) |->
                    PoolSum(mode, self, act,
                            Covering(((p - 1) \div wp) + 1, oh, poolsize[1], stride[1])
                                \X Covering(((p - 1) % wp) + 1, ow, poolsize[2], stride[2]),
                            ow, wp, poolsize, stride, p,
                            [lower |-> Zero, upper |-> Zero])]}} : TRUE

Interval_op_d_max_pool(self, activation, input_shape, poolsize, stride, padding) ==
    Interval_op_d_pool("max", self, activation, input_shape, poolsize, stride, padding)

Interval_op_d_avg_pool(self, activation, input_shape, poolsize, stride, padding) ==
    Interval_op_d_pool("avg", self, activation, input_shape, poolsize, stride, padding)

\* NpInterval leaves both rules unimplemented
NpInterval_op_d_max_pool(self, activation, input_shape, poolsize, stride, padding) ==
    Raised("NotImplementedError")

NpInterval_op_d_avg_pool(self, activation, input_shape, poolsize, stride, padding) ==
    Raised("NotImplementedError")

\* d_pool of derest.derivative: the rule of the pooling mode
d_pool(output, activation, input_shape, poolsize, stride, padding, mode) ==
    IF mode = "max"
    THEN Interval_op_d_max_pool(output, activation, input_shape, poolsize, stride, padding)
    ELSE Interval_op_d_avg_pool(output, activation, input_shape, poolsize, stride, padding)

\* ------------------------------------------- unimplemented primitives
\* NpInterval.op_conv
NpInterval_op_conv(self, weights, image_shape, filter_shape, biases, stride, padding, n_groups) ==
    Raised("NotImplementedError")

\* op_d_conv that checks its arguments before it gives up
NpInterval_op_d_conv_Checked(self, input_shape, filter_shape, weights, stride, padding, n_groups) ==
    IF n_groups = 0 THEN Raised("ValueError") ELSE Raised("NotImplementedError")

\* NpInterval.op_d_conv
NpInterval_op_d_conv(self, input_shape, filter_shape, weights, stride, padding, n_groups) ==
    Raised("NotImplementedError")

\* the layer primitives NpInterval declares without implementing them
UnimplementedPrimitives ==
    {"op_relu", "op_softmax", "op_norm", "op_conv", "op_d_relu", "op_d_max_pool",
     "op_d_avg_pool", "op_d_conv"}

\* a call of one of them on self, with the activation other, n for every
\* integer argument and (n, n) for every pair
NpInterval_primitive(prim, self, other, n) ==
    CASE prim = "op_relu" -> NpInterval_op_relu(self)
      [] prim = "op_softmax" -> NpInterval_op_softmax(self, n)
      [] prim = "op_norm" ->
            NpInterval_op_norm(self, n, n, Int2Num(n), Int2Num(n), n)
      [] prim = "op_conv" ->
            NpInterval_op_conv(self, other.lower, <<n, n, n>>, <<n, n, n>>,
                               other.upper, <<n, n>>, <<n, n>>, n)
      [] prim = "op_d_relu" -> NpInterval_op_d_relu(self, other)
      [] prim = "op_d_max_pool" ->
            NpInterval_op_d_max_pool(self, other, <<n, n>>, <<n, n>>, <<n, n>>, <<n, n>>)
      [] prim = "op_d_avg_pool" ->
            NpInterval_op_d_avg_pool(self, other, <<n, n>>, <<n, n>>, <<n, n>>, <<n, n>>)
      [] prim = "op_d_conv" ->
            NpInterval_op_d_conv(self, <<n, n>>, <<n, n, n>>, other.lower, <<n, n>>,
                                 <<n, n>>, n)

\* -------------------------------------------------------------------- heap
\* NpInterval objects by reference.  heap.arrays is the sequence of the numpy
\* arrays allocated so far (an array is a flat sequence, its identity is its
\* index); an NpInterval is the pair of the identities NpInterval.__init__
\* stored as lower and upper.

NoRef == [lower |-> 0, upper |-> 0]

EmptyHeap ==
    [phase |-> "heap", arrays |-> <<>>, x |-> NoRef, other |-> NoRef,
     res |-> NoRef, at |-> 0, err |-> ""]

\* the interval value an object refers to
Deref(arrays, ref) == Itv(arrays[ref.lower], arrays[ref.upper])

NewInterval_Reuse(arrays, lower, upper) ==
    IF Len(arrays) < 2
    THEN [arrays |-> arrays \o <<lower, upper>>,
          ref |-> [lower |-> Len(arrays) + 1, upper |-> Len(arrays) + 2]]
    ELSE [arrays |-> [arrays EXCEPT ![1] = lower, ![2] = upper],
          ref |-> [lower |-> 1, upper |-> 2]]

\* NpInterval(lower, upper) of two arrays just allocated: the object keeps
\* both references
NewInterval(arrays, lower, upper) ==
    [arrays |-> arrays \o <<lower, upper>>,
     ref |-> [lower |-> Len(arrays) + 1, upper |-> Len(arrays) + 2]]

\* numpy.eye(n), flat
FlatEye(n) ==
    [p \in 1..(n * n) |-> IF (p - 1) \div n = (p - 1) % n THEN One ELSE Zero]

\* NpInterval.derest_output: np_matrix is allocated once and passed as both
\* bounds
DerestOutputRef(arrays, n_outputs) ==
    [arrays |-> Append(arrays, FlatEye(n_outputs)),
     ref |-> [lower |-> Len(arrays) + 1, upper |-> Len(arrays) + 1]]

\* NpInterval.__setitem__: self.lower[at] = other.lower, then
\* self.upper[at] = other.upper, each an assignment into the array itself
NpInterval_setitem(arrays, self, at, other) ==
    LET first == [arrays EXCEPT ![self.lower][at] = arrays[other.lower][1]]
    IN  [first EXCEPT ![self.upper][at] = first[other.upper][1]]

\* NpInterval.exp
NpInterval_exp(self) == NpInterval(Map1(Exp, self.lower), Map1(Exp, self.upper))

\* the operations of an interval that return an interval
HeapOperations ==
    {"mul", "div", "reciprocal", "neg", "exp", "square", "power", "dot", "max",
     "abs", "a_relu", "a_dropout", "d_dropout", "op_d_norm"}

\* the bounds NpInterval.op_d_norm finds for a derivative of the norm function;
\* the search of the extrema is not part of this model, any of these pairs
\* stands for its outcome
DerBounds == {<<Int2Num(-1), Zero>>, <<Zero, One>>, <<Num(1, 2), Num(1, 2)>>}

\* the value an operation returns for the receiver self and the argument other
OperationValue(name, self, other, der) ==
    CASE name = "mul" -> NpInterval_mul(self, Operand(other.lower, other.upper))
      [] name = "div" -> NpInterval_div(self, Operand(other.lower, other.upper))
      [] name = "reciprocal" -> NpInterval_reciprocal(self)
      [] name = "neg" -> NpInterval_neg(self)
      [] name = "exp" -> NpInterval_exp(self)
      [] name = "square" -> NpInterval_square(self)
      [] name = "power" -> NpInterval_power(self, 3)
      [] name = "dot" ->
            NpInterval_dot(self, [i \in 1..Len(self.lower) |-> <<other.lower[1]>>])
      [] name = "max" -> NpInterval_max(self, Operand(other.lower, other.upper))
      [] name = "abs" -> NpInterval_abs(self)
      [] name = "a_relu" -> a_relu("NpInterval", self)
      [] name = "a_dropout" -> a_dropout("NpInterval", self, Half)
      [] name = "d_dropout" -> d_dropout("NpInterval", self, Half)
      [] name = "op_d_norm" ->
            NpInterval_mul(self, Operand(<<der[1]>>, <<der[2]>>))

\* ---------------------------------------------------------------------------
\* simple_neuron_deleter (sender) and the helpers of athenet.algorithm.utils
\* ---------------------------------------------------------------------------

\* np.sum(abs(row))
RECURSIVE AbsSum(_)
AbsSum(row) == IF row = <<>> THEN 0 ELSE Abs(Head(row)) + AbsSum(Tail(row))

\* np.sum(abs(table))
RECURSIVE AbsSumTable(_)
AbsSumTable(table) ==
    IF table = <<>> THEN 0 ELSE AbsSum(Head(table)) + AbsSumTable(Tail(table))

\* list_of_percentage_rows_table: one tuple (share of the row, row, layer_id)
\* per row of the table; rows and layers are numbered from 0
list_of_percentage_rows_table(table, layer_id) ==
    LET all_weights == AbsSumTable(table)
    IN  [r \in 1..Len(table) |-> <<Num(AbsSum(table[r]), all_weights), r - 1, layer_id>>]

list_of_percentage_rows(layer_id, layer) ==
    list_of_percentage_rows_table(layer.W, layer_id)

\* delete_column: W = layer.W is a copy; W[j][i] = 0. for every row j, then the
\* copy is stored back. Indexing past the row's end raises IndexError before
\* anything is stored.
delete_column(layer, i) ==
    IF Len(layer.W) > 0 /\ i >= Len(layer.W[1])
    THEN [err |-> "IndexError", layer |-> layer]
    ELSE [err |-> "",
          layer |-> [layer EXCEPT !.W = [j \in 1..Len(layer.W) |->
                                            [layer.W[j] EXCEPT ![i + 1] = 0]]]]

\* delete_row: the body is the body of delete_column
delete_row(layer, i) ==
    IF Len(layer.W) > 0 /\ i >= Len(layer.W[1])
    THEN [err |-> "IndexError", layer |-> layer]
    ELSE [err |-> "",
          layer |-> [layer EXCEPT !.W = [j \in 1..Len(layer.W) |->
                                            [layer.W[j] EXCEPT ![i + 1] = 0]]]]

\* tuple comparison of sorted(): share, then row, then layer_id
TupleLess(s, t) ==
    \/ Lt(s[1], t[1])
    \/ /\ s[1] = t[1]
       /\ \/ s[2] < t[2]
          \/ s[2] = t[2] /\ s[3] < t[3]

RECURSIVE SortedTuples(_)
SortedTuples(S) ==
    IF S = {} THEN <<>>
    ELSE LET least == CHOOSE s \in S : \A t \in S \ {s} : TupleLess(s, t)
         IN  <<least>> \o SortedTuples(S \ {least})

\* the first loop of simple_neuron_deleter: the tuples of the fully connected
\* layers among network.weighted_layers
RECURSIVE ConsideredNeurons(_, _)
ConsideredNeurons(weighted_layers, n) ==
    IF n = 0 THEN <<>>
    ELSE ConsideredNeurons(weighted_layers, n - 1) \o
         (IF weighted_layers[n].kind = "FullyConnectedLayer"
          THEN list_of_percentage_rows(n - 1, weighted_layers[n])
          ELSE <<>>)

\* neurons_for_layer[i] = layer.W.shape[0] for a fully connected layer, else 0
NeuronsForLayer(weighted_layers) ==
    [n \in 1..Len(weighted_layers) |->
        IF weighted_layers[n].kind = "FullyConnectedLayer"
        THEN Len(weighted_layers[n].W) ELSE 0]

\* neurons_in_general
RECURSIVE SumInts(_)
SumInts(counts) == IF counts = <<>> THEN 0 ELSE Head(counts) + SumInts(Tail(counts))

\* the second loop of simple_neuron_deleter from the k-th considered neuron on;
\* i is the index the first loop ended with
RECURSIVE DeleterLoop(_, _, _, _, _, _, _, _)
DeleterLoop(st, considered, k, p, layer_limit, neurons_for_layer, neurons_in_general, i) ==
    IF k > Len(considered) THEN st
    ELSE LET row == considered[k][2]
             layer_id == considered[k][3]
             done == delete_row(st.weighted_layers[layer_id + 1], row)
         IN  IF Ge(Int2Num(st.deleted_in_general),
                   Mul(p, Int2Num(neurons_in_general)))
             THEN st
             ELSE IF Gt(Int2Num(1 + st.deleted_for_layer[layer_id + 1]),
                        Mul(layer_limit, Int2Num(neurons_for_layer[i + 1])))
             THEN DeleterLoop([st EXCEPT !.skipped = Append(@, <<layer_id, row>>)],
                              considered, k + 1, p, layer_limit, neurons_for_layer,
                              neurons_in_general, i)
             ELSE IF done.err # ""
             THEN [st EXCEPT !.err = done.err,
                             !.deleted_for_layer[layer_id + 1] = @ + 1,
                             !.failed = <<layer_id, row>>]
             ELSE DeleterLoop([st EXCEPT !.deleted_for_layer[layer_id + 1] = @ + 1,
                                         !.weighted_layers[layer_id + 1] = done.layer,
                                         !.deleted_in_general = @ + 1,
                                         !.deleted = Append(@, <<layer_id, row>>)],
                              considered, k + 1, p, layer_limit, neurons_for_layer,
                              neurons_in_general, i)

\* simple_neuron_deleter(network, (p, layer_limit))
simple_neuron_deleter(weighted_layers, config) ==
    LET layer_limit == config[2]
        p == IF Lt(layer_limit, config[1]) THEN layer_limit ELSE config[1]
        neurons_for_layer == NeuronsForLayer(weighted_layers)
        listed == ConsideredNeurons(weighted_layers, Len(weighted_layers))
        considered == SortedTuples({listed[n] : n \in 1..Len(listed)})
        start == [weighted_layers |-> weighted_layers,
                  deleted_for_layer |-> [n \in 1..Len(weighted_layers) |-> 0],
                  deleted_in_general |-> 0,
                  deleted |-> <<>>, skipped |-> <<>>, failed |-> <<>>, err |-> ""]
    IN  IF ~(Ge(config[1], Zero) /\ Le(config[1], One))
           \/ ~(Ge(layer_limit, Zero) /\ Le(layer_limit, One))
        THEN [start EXCEPT !.err = "AssertionError"]
        ELSE DeleterLoop(start, considered, 1, p, layer_limit, neurons_for_layer,
                         SumInts(neurons_for_layer), Len(weighted_layers) - 1)

\* ---------------------------------------------------------------------------
\* NpInterval.op_d_norm: the denominator term C of the main loop, for the
\* channels at one position (b, at_h, at_w)
\* ---------------------------------------------------------------------------

\* NpInterval._antiadd
NpInterval_antiadd(self, other) ==
    NpInterval(Map2(Sub, self.lower, other.lower), Map2(Sub, self.upper, other.upper))

\* x[channel]: the element of channel 'channel' (numbered from 0) as an interval
Element(x, channel) == Itv(<<x.lower[channel + 1]>>, <<x.upper[channel + 1]>>)

\* the neighbour test of both loops: channels > i + channel >= 0 != i
IsNeighbour(channels, channel, i) ==
    /\ channels > i + channel
    /\ i + channel >= 0
    /\ 0 # i

\* the loop of lines 499-503 from offset i on:
\* C += activation_sqares[b][channel + i][at_h][at_w] * alpha for every
\* neighbour; the value of C._antiadd(...) on the next line is discarded
RECURSIVE AddNeighbours(_, _, _, _, _, _)
AddNeighbours(C, activation_sqares, channel, i, local_range, alpha) ==
    IF i > local_range THEN C
    ELSE AddNeighbours(
            IF IsNeighbour(Len(activation_sqares.lower), channel, i)
            THEN Interval_add("NpInterval", C,
                              NpInterval_mul(Element(activation_sqares, channel + i),
                                             Plain(<<alpha>>)))
            ELSE C,
            activation_sqares, channel, i + 1, local_range, alpha)

\* C at the eq case of a channel: NpInterval([k], [k]) plus the neighbours
DenominatorTerm(activation_sqares, channel, local_range, k, alpha) ==
    AddNeighbours(NpInterval(<<k>>, <<k>>), activation_sqares, channel,
                  -local_range, local_range, alpha)

\* ---------------------------------------------------------------------------
\* athenet.Network: batch_size, data_loader and the links between the layers
\* ---------------------------------------------------------------------------
\* A layer is [kind, batch_size, input_layer, input_shape]: input_layer is the
\* index in Network.layers of the layer it is linked to (0: None), input_shape
\* a tuple (<<>>: None), batch_size a number (0: None).  A data loader is its
\* index in network.loaders (0: None), network.loaders[d] its batch_size.

\* Layer.output_shape returns input_shape; ConvolutionalLayer overrides it
\* (valid convolution with a filter of extent 2)
output_shape(layer) ==
    IF layer.kind = "ConvolutionalLayer" /\ layer.input_shape # <<>>
    THEN <<layer.input_shape[1] - 1>>
    ELSE layer.input_shape

\* Layer.input_layer setter: _input_layer and input_shape of layers[i] are
\* set from layers[i - 1]
input_layer_setter(layers, i) ==
    [layers EXCEPT ![i] = [@ EXCEPT !.input_layer = i - 1,
                                    !.input_shape = output_shape(layers[i - 1])]]

\* for i in xrange(1, len(self.layers)): self.layers[i].input_layer =
\* self.layers[i - 1]   (i counts from 2 here)
RECURSIVE LinkLayers(_, _)
LinkLayers(layers, i) ==
    IF i > Len(layers) THEN layers
    ELSE LinkLayers(input_layer_setter(layers, i), i + 1)

\* for layer in self.convolutional_layers: layer.batch_size = self.batch_size
SetConvolutionalBatchSize(layers, value) ==
    [i \in 1..Len(layers) |->
        IF layers[i].kind = "ConvolutionalLayer"
        THEN [layers[i] EXCEPT !.batch_size = value]
        ELSE layers[i]]

\* Network.batch_size setter that links the layers again for the value it
\* already has
batch_size_setter_Always(net, value) ==
    [net EXCEPT !._batch_size = value,
                !.loaders = IF net._data_loader # 0
                            THEN [net.loaders EXCEPT ![net._data_loader] = value]
                            ELSE net.loaders,
                !.layers = LinkLayers(SetConvolutionalBatchSize(net.layers, value), 2),
                !.links = Len(net.layers) - 1]

\* Network.batch_size setter
batch_size_setter(net, value) ==
    IF net._batch_size = value THEN [net EXCEPT !.links = 0]
    ELSE [net EXCEPT !._batch_size = value,
                     !.loaders = IF net._data_loader # 0
                                 THEN [net.loaders EXCEPT ![net._data_loader] = value]
                                 ELSE net.loaders,
                     !.layers = LinkLayers(SetConvolutionalBatchSize(net.layers, value), 2),
                     !.links = Len(net.layers) - 1]

\* Network.data_loader setter
data_loader_setter(net, value) ==
    [net EXCEPT !._data_loader = value,
                !.loaders = IF value # 0
                            THEN [net.loaders EXCEPT ![value] = net._batch_size]
                            ELSE net.loaders,
                !.links = 0]

\* Network.__init__: _batch_size = None, _data_loader = None, then
\* self.batch_size = 1
Network_init(net) ==
    batch_size_setter([net EXCEPT !._batch_size = 0, !._data_loader = 0], 1)

\* ------------------------------------------------------------------ inputs
Vals == {Int2Num(v) : v \in (-MaxVal)..MaxVal}

Pairs == {p \in Vals \X Vals : Le(p[1], p[2])}

RECURSIVE SeqsOf(_, _)
SeqsOf(S, n) ==
    IF n = 0 THEN {<<>>}
    ELSE {Append(s, p) : s \in SeqsOf(S, n - 1), p \in S}

Lowers(ps) == [i \in 1..Len(ps) |-> ps[i][1]]

Uppers(ps) == [i \in 1..Len(ps) |-> ps[i][2]]

IntSeq(s) == [i \in 1..Len(s) |-> Int2Num(s[i])]

\* the interval tensors of n elements with bounds from the pairs P
TensorsOf(P, n) == {Itv(Lowers(ps), Uppers(ps)) : ps \in SeqsOf(P, n)}

\* ReluDerivativeTest.test_interval / test_interval_negative
TestActivation == Operand(IntSeq(<<-2, -1, -1, 0, 0, 1>>), IntSeq(<<-1, 1, 0, 0, 1, 2>>))

TestImpact == Itv(IntSeq(<<2, 3, 4, 7, 11, 13>>), IntSeq(<<3, 5, 7, 11, 13, 17>>))

TestImpactNegative ==
    Itv(IntSeq(<<-3, -5, -7, -11, -13, -17>>), IntSeq(<<-2, -3, -5, -7, -11, -13>>))

\* DropoutDerivativeTest.test_interval_3x3n, row by row
TestDropoutImpact ==
    Itv(IntSeq(<<-3, 0, 3, 3, -3, -5, -3, -2, 1>>), IntSeq(<<-3, 2, 3, 5, 3, 2, -1, 3, 3>>))

\* the values of p_dropout
DropoutPs == {Zero, Num(1, 2), Num(4, 5), One, Num(3, 2)}

\* the interval [-3, 2]
ExampleSquare == Itv(IntSeq(<<-3>>), IntSeq(<<2>>))

\* valid interval tensors of 1 .. MaxLen elements, and the tensors of the
\* repository's ReLU tests
Tensors ==
    UNION {TensorsOf(Pairs, n) : n \in 1..MaxLen}
        \cup {TestImpact, TestImpactNegative, ExampleSquare, TestDropoutImpact}

\* interval operands of a binary operation: one broadcast interval
IntervalOperands == {Operand(<<p[1]>>, <<p[2]>>) : p \in Pairs}

\* operands of a binary operation: an interval or a plain number
Operands == IntervalOperands \cup {Plain(<<v>>) : v \in Vals}

\* point tensors of 1 .. PointLen elements
PointPairs == {<<v, v>> : v \in Vals}

PointTensors == UNION {TensorsOf(PointPairs, n) : n \in 1..PointLen}

\* entries of the plain matrix of a dot product
WVals == {Int2Num(v) : v \in {-1, 0, 1}}

\* entries of the weights of a fully connected layer
LayerWVals == {Int2Num(v) : v \in {-1, 2}}

Matrices(S, rows, cols) == SeqsOf(SeqsOf(S, cols), rows)

\* the lengths of the vectors that are multiplied by a matrix
VectorLens == (1..DotLen) \cup (1..PointLen) \cup {3}

\* the matrices other of a.dot(other), by the length of a: one column
DotMatrices == [n \in VectorLens |-> Matrices(WVals, n, 1)]

\* the weights of a fully connected layer of two inputs, by its output size
LayerWeights == [n \in VectorLens |-> Matrices(LayerWVals, 2, n)]

\* FullyConnectedDerivativeTest.test_2D_Intervals
TestDout == Itv(IntSeq(<<-3, -6, 3>>), IntSeq(<<9, -3, 6>>))

TestWeights ==
    <<IntSeq(<<2, -3, -3>>), IntSeq(<<-3, 1, 2>>), IntSeq(<<5, -4, 3>>), IntSeq(<<-2, -3, -4>>)>>

DotVals == {Int2Num(v) : v \in {-1, 0, 1}}

DotPairs == {p \in DotVals \X DotVals : Le(p[1], p[2])}

\* interval vectors of 1 .. DotLen elements, and the vector of the
\* repository's fully connected test
DotVectors == UNION {TensorsOf(DotPairs, n) : n \in 1..DotLen} \cup {TestDout}

\* the presets a realization supplies to from_shape: the neutral pair and
\* the default pair
PresetPairs == {<<NegInf, PosInf>>, <<Zero, Zero>>, <<Zero, One>>}

IntervalClasses ==
    {[NEUTRAL_LOWER |-> n[1], NEUTRAL_UPPER |-> n[2],
      DEFAULT_LOWER |-> d[1], DEFAULT_UPPER |-> d[2]] : n \in PresetPairs, d \in PresetPairs}

\* the values passed as lower_val and upper_val
ShapeVals == DotVals \cup {NegInf, PosInf, None}

\* the layers of a Derest run: ReLU layers and dropout layers
LayerKinds == {DerestLayer("relu", Zero), DerestLayer("dropout", Num(1, 2))}

\* the runs before their forward pass: 1 .. MaxLayers layers and an input
\* interval of one element
NewRuns ==
    {NewRun(cls, layers, input) :
        cls \in Classes,
        layers \in UNION {SeqsOf(LayerKinds, n) : n \in 1..MaxLayers},
        input \in TensorsOf(Pairs, 1)}

\* the classes whose neutral pair is (0, 0) or (-inf, +inf)
NeutralClasses ==
    {cls \in IntervalClasses : cls.DEFAULT_UPPER = One /\ cls.NEUTRAL_UPPER # One}

\* the point activations of 1 .. MaxChannels channels at one position
NormVals == {Int2Num(v) : v \in {-1, 0, 2}}

NormTensors ==
    UNION {TensorsOf({<<v, v>> : v \in NormVals}, n) : n \in 1..MaxChannels}

\* the parameters k and alpha of a LRN layer
NormKs == {One, Num(3, 1)}

NormAlphas == {One, Num(1, 2)}

\* op_d_norm: the activations of the channels at one position
DNormPairs == {<<Int2Num(-1), Int2Num(2)>>, <<One, One>>, <<Zero, Int2Num(2)>>}

DNormActivations ==
    UNION {{Operand(t.lower, t.upper) : t \in TensorsOf(DNormPairs, n)} : n \in 1..MaxChannels}

\* network: the layers handed to Network(layers), as they were left by earlier
\* use (linked or not, with or without a shape); the first layer has its shape
NetworkKinds == {"Layer", "ConvolutionalLayer"}

FirstLayers ==
    {[kind |-> kd, batch_size |-> 0, input_layer |-> 0, input_shape |-> <<4>>] :
        kd \in NetworkKinds}

LaterLayers ==
    {[kind |-> kd, batch_size |-> 0, input_layer |-> l, input_shape |-> shp] :
        kd \in NetworkKinds, l \in {0, 1}, shp \in {<<>>, <<4>>}}

RECURSIVE NetworkLayers(_)
NetworkLayers(n) ==
    IF n = 1 THEN {<<l>> : l \in FirstLayers}
    ELSE {Append(ls, l) : ls \in NetworkLayers(n - 1), l \in LaterLayers}

\* the data loaders, each with the batch_size it was created with
NetworkLoaders == [1..2 -> 1..MaxBatch]

\* sender: weight matrices of fully connected layers (rows x columns: square,
\* wide and tall), none of them all zero
SenderWeights ==
    {<<<<1>>>>,
     <<<<1, 2>>>>,
     <<<<1>>, <<-2>>>>,
     <<<<1, -1>>, <<-2, 2>>>>,
     <<<<2, 0, 1>>, <<0, 1, -1>>, <<-1, 1, 2>>>>}

SenderLayers ==
    {[kind |-> "FullyConnectedLayer", W |-> w] : w \in SenderWeights}
        \cup {[kind |-> "ConvolutionalLayer", W |-> <<>>]}

RECURSIVE LayerLists(_)
LayerLists(n) ==
    IF n = 0 THEN {<<>>}
    ELSE {Append(ls, l) : ls \in LayerLists(n - 1), l \in SenderLayers}

\* network.weighted_layers
SenderNetworks == UNION {LayerLists(n) : n \in 1..MaxWeighted}

\* config = (p, layer_limit)
SenderConfigs == {Zero, Half, One} \X {Zero, Half, One}

\* heap: the bounds of the intervals built by the constructor
HeapPairs == {p \in {Int2Num(v) : v \in {-1, 0, 2}} \X {Int2Num(v) : v \in {-1, 0, 2}} :
                Le(p[1], p[2])}

HeapTensors == UNION {TensorsOf(HeapPairs, n) : n \in 1..2}

\* pooling: height x width of the layer input
PoolShapes == {<<2, 3>>, <<3, 3>>, <<5, 5>>}

\* poolsize (height, width), not equal (1, 1)
PoolSizes == {<<2, 2>>, <<1, 2>>, <<2, 1>>, <<3, 2>>}

PoolStrides == {<<s, s>> : s \in 1..MaxStride}

PoolPaddings == {<<p, p>> : p \in 0..MaxPad}

\* the configurations whose window fits the padded input
PoolConfigs ==
    {cfg \in [input_shape : PoolShapes, poolsize : PoolSizes,
              stride : PoolStrides, padding : PoolPaddings] :
        /\ cfg.input_shape[1] + 2 * cfg.padding[1] >= cfg.poolsize[1]
        /\ cfg.input_shape[2] + 2 * cfg.padding[2] >= cfg.poolsize[2]}

\* activations of the tests: [0, 1] everywhere, and [p - 1, p + 1] at the
\* p-th element (numpy.arange and numpy.arange + 2)
PoolActivations ==
    {Operand([p \in 1..(shp[1] * shp[2]) |-> Zero],
             [p \in 1..(shp[1] * shp[2]) |-> One]) : shp \in PoolShapes}
    \cup {Operand([p \in 1..(shp[1] * shp[2]) |-> Int2Num(p - 1)],
                  [p \in 1..(shp[1] * shp[2]) |-> Int2Num(p + 1)]) : shp \in PoolShapes}

\* impacts of n outputs: the impact [-1, 5] at one output and 0 elsewhere, the
\* impact [-k, 6 - k] at the k-th output, and the points -1, 2, -3, 4, ...
PoolImpacts(n) ==
    {Operand([k \in 1..n |-> IF k = hot THEN Int2Num(-1) ELSE Zero],
             [k \in 1..n |-> IF k = hot THEN Int2Num(5) ELSE Zero]) : hot \in 1..n}
    \cup {Operand([k \in 1..n |-> Int2Num(-k)], [k \in 1..n |-> Int2Num(6 - k)]),
          Operand([k \in 1..n |-> Int2Num(IF k % 2 = 0 THEN k ELSE -k)],
                  [k \in 1..n |-> Int2Num(IF k % 2 = 0 THEN k ELSE -k)])}

\* number of outputs of a configuration
PoolOutputs(cfg) ==
    PoolOut(cfg.input_shape[1], cfg.padding[1], cfg.poolsize[1], cfg.stride[1])
    * PoolOut(cfg.input_shape[2], cfg.padding[2], cfg.poolsize[2], cfg.stride[2])

\* ------------------------------------------------------------------- state
VARIABLES
    op,         \* the operation applied last, "init" before any
    a,          \* the receiver interval (self)
    b,          \* the second operand of a binary operation
    exponent,   \* the exponent of power
    W,          \* the plain matrix of dot, the weights of a layer
    args,       \* the remaining arguments of the operation applied last
    npRes,      \* what the operation returned on NpInterval
    thRes,      \* what the operation returned on TheanoInterval
    derest,     \* the Derest run: its layers and its position in the two passes
    heap,       \* numpy arrays by identity and the NpIntervals that refer to them
    sender,     \* a run of simple_neuron_deleter on the weights of a network
    dnorm,      \* a run of the main loop of NpInterval.op_d_norm
    network     \* a Network, its layers and its data loaders

\* the objects outside the interval arithmetic
ext == <<heap, sender, dnorm, network>>

vars == <<op, a, b, exponent, W, args, npRes, thRes, derest, ext>>

NoResult == Raised("none")

NoArgs == <<>>

\* no Derest run
NoRun == [phase |-> "none"]

\* no object outside the interval arithmetic exists
NoExt ==
    /\ heap = NoRun
    /\ sender = NoRun
    /\ dnorm = NoRun
    /\ network = NoRun

InitWith(S) ==
    /\ op = "init"
    /\ a \in S
    /\ b = NoOperand
    /\ exponent = 0
    /\ W = <<>>
    /\ args = NoArgs
    /\ npRes = NoResult
    /\ thRes = NoResult
    /\ derest = NoRun
    /\ NoExt

Init == InitWith(Tensors)

\* a * other
Multiply ==
    /\ op = "init"
    /\ \E other \in Operands :
        /\ b' = other
        /\ npRes' = NpInterval_mul(a, other)
        /\ thRes' = TheanoInterval_mul(a, other)
    /\ op' = "mul"
    /\ UNCHANGED <<a, exponent, W, args, derest, ext>>

\* a / other
Divide ==
    /\ op = "init"
    /\ \E other \in Operands :
        /\ b' = other
        /\ npRes' = NpInterval_div(a, other)
        /\ thRes' = TheanoInterval_div(a, other)
    /\ op' = "div"
    /\ UNCHANGED <<a, exponent, W, args, derest, ext>>

\* a.reciprocal()
Reciprocal ==
    /\ op = "init"
    /\ npRes' = NpInterval_reciprocal(a)
    /\ thRes' = TheanoInterval_reciprocal(a)
    /\ op' = "reciprocal"
    /\ UNCHANGED <<a, b, exponent, W, args, derest, ext>>

\* a.neg()
Neg ==
    /\ op = "init"
    /\ npRes' = NpInterval_neg(a)
    /\ thRes' = TheanoInterval_neg(a)
    /\ op' = "neg"
    /\ UNCHANGED <<a, b, exponent, W, args, derest, ext>>

\* a.square()
Square ==
    /\ op = "init"
    /\ npRes' = NpInterval_square(a)
    /\ thRes' = TheanoInterval_square(a)
    /\ op' = "square"
    /\ UNCHANGED <<a, b, exponent, W, args, derest, ext>>

\* a.power(n), n an int
Power ==
    /\ op = "init"
    /\ \E n \in (-MaxExp)..MaxExp :
        /\ exponent' = n
        /\ npRes' = NpInterval_power(a, n)
        /\ thRes' = TheanoInterval_power(a, n)
    /\ op' = "power"
    /\ UNCHANGED <<a, b, W, args, derest, ext>>

\* a.max(other)
Max ==
    /\ op = "init"
    /\ \E other \in Operands :
        /\ b' = other
        /\ npRes' = NpInterval_max(a, other)
        /\ thRes' = TheanoInterval_max(a, other)
    /\ op' = "max"
    /\ UNCHANGED <<a, exponent, W, args, derest, ext>>

\* a.abs()
AbsoluteValue ==
    /\ op = "init"
    /\ npRes' = NpInterval_abs(a)
    /\ thRes' = TheanoInterval_abs(a)
    /\ op' = "abs"
    /\ UNCHANGED <<a, b, exponent, W, args, derest, ext>>

\* a_relu(a)
ReluActivation ==
    /\ op = "init"
    /\ npRes' = a_relu("NpInterval", a)
    /\ thRes' = a_relu("TheanoInterval", a)
    /\ op' = "a_relu"
    /\ UNCHANGED <<a, b, exponent, W, args, derest, ext>>

\* d_relu(a, activation): a is the impact of the layer's output, the
\* activation has a shape that broadcasts with it
ReluDerivative ==
    /\ op = "init"
    /\ \E activation \in {x \in IntervalOperands \cup {TestActivation} :
                            Broadcastable(a.lower, x.lower)} :
        /\ b' = activation
        /\ npRes' = d_relu("NpInterval", a, activation)
        /\ thRes' = d_relu("TheanoInterval", a, activation)
    /\ op' = "d_relu"
    /\ UNCHANGED <<a, exponent, W, args, derest, ext>>

\* a.dot(other), other a plain matrix with one row per element of a
DotProduct ==
    /\ op = "init"
    /\ \E other \in DotMatrices[Len(a.lower)] :
        /\ W' = other
        /\ npRes' = NpInterval_dot(a, other)
        /\ thRes' = TheanoInterval_dot(a, other)
    /\ op' = "dot"
    /\ UNCHANGED <<a, b, exponent, args, derest, ext>>

\* d_fully_connected(a, weights, shape): a is the impact of the layer's
\* output, weights has one column per element of a
FullyConnectedDerivative ==
    /\ op = "init"
    /\ \E weights \in LayerWeights[Len(a.lower)]
                        \cup (IF Len(a.lower) = 3 THEN {TestWeights} ELSE {}) :
        /\ W' = weights
        /\ npRes' = d_fully_connected("NpInterval", a, weights)
        /\ thRes' = d_fully_connected("TheanoInterval", a, weights)
    /\ op' = "d_fully_connected"
    /\ UNCHANGED <<a, b, exponent, args, derest, ext>>

\* a_dropout(a, p_dropout)
DropoutActivation ==
    /\ op = "init"
    /\ \E p_dropout \in DropoutPs :
        /\ args' = [p_dropout |-> p_dropout]
        /\ npRes' = a_dropout("NpInterval", a, p_dropout)
        /\ thRes' = a_dropout("TheanoInterval", a, p_dropout)
    /\ op' = "a_dropout"
    /\ UNCHANGED <<a, b, exponent, W, derest, ext>>

\* d_dropout(a, p_dropout)
DropoutDerivative ==
    /\ op = "init"
    /\ \E p_dropout \in DropoutPs :
        /\ args' = [p_dropout |-> p_dropout]
        /\ npRes' = d_dropout("NpInterval", a, p_dropout)
        /\ thRes' = d_dropout("TheanoInterval", a, p_dropout)
    /\ op' = "d_dropout"
    /\ UNCHANGED <<a, b, exponent, W, derest, ext>>

\* a call of a layer primitive that NpInterval does not implement
Unimplemented ==
    /\ op = "init"
    /\ \E prim \in UnimplementedPrimitives, n \in 0..MaxShape,
          other \in {Operand(a.lower, a.upper), TestActivation} :
        /\ args' = [primitive |-> prim, n |-> n]
        /\ b' = other
        /\ npRes' = NpInterval_primitive(prim, a, other, n)
    /\ op' = "unimplemented"
    /\ UNCHANGED <<a, exponent, W, thRes, derest, ext>>

Next ==
    \/ Multiply
    \/ Divide
    \/ Reciprocal
    \/ Neg
    \/ Square
    \/ Power
    \/ Max
    \/ AbsoluteValue
    \/ ReluActivation
    \/ ReluDerivative
    \/ DropoutActivation
    \/ DropoutDerivative
    \/ Unimplemented

\* the elementwise primitives and the ReLU rules on valid interval tensors
Spec == Init /\ [][Next]_vars

InitPoint == InitWith(PointTensors)

NextPoint ==
    \/ Multiply
    \/ Divide
    \/ Neg
    \/ Square
    \/ Power
    \/ Max
    \/ AbsoluteValue
    \/ DotProduct

\* the primitives on point intervals
SpecPoint == InitPoint /\ [][NextPoint]_vars

InitDot == InitWith(DotVectors)

\* a.op_softmax(input_shp), a the vector of the logits
Softmax ==
    /\ op = "init"
    /\ \E cls \in IntervalClasses :
        /\ args' = [cls |-> cls, input_shp |-> Len(a.lower)]
        /\ npRes' = NpInterval_op_softmax(a, Len(a.lower))
        /\ thRes' = TheanoInterval_op_softmax(cls, a, Len(a.lower))
    /\ op' = "softmax"
    /\ UNCHANGED <<a, b, exponent, W, derest, ext>>

NextDot ==
    \/ DotProduct
    \/ FullyConnectedDerivative
    \/ Softmax

\* the dot product and the fully connected derivative on interval vectors
SpecDot == InitDot /\ [][NextDot]_vars

InitShape == InitWith({NoOperand})

\* cls.from_shape(shp, neutral, lower_val, upper_val)
FromShape ==
    /\ op = "init"
    /\ \E cls \in IntervalClasses, shp \in 1..MaxShape, neutral \in BOOLEAN,
          lower_val \in ShapeVals, upper_val \in ShapeVals :
        /\ args' = [cls |-> cls, shp |-> shp, neutral |-> neutral,
                    lower_val |-> lower_val, upper_val |-> upper_val]
        /\ npRes' = NpInterval_from_shape(cls, shp, neutral, lower_val, upper_val)
        /\ thRes' = TheanoInterval_from_shape(cls, shp, neutral, lower_val, upper_val)
    /\ op' = "from_shape"
    /\ UNCHANGED <<a, b, exponent, W, derest, ext>>

\* derest_output(n_outputs)
DerestOutput ==
    /\ op = "init"
    /\ \E n_outputs \in 1..(MaxShape + 1) :
        /\ args' = [n_outputs |-> n_outputs]
        /\ npRes' = NpInterval_derest_output(n_outputs)
        /\ thRes' = TheanoInterval_derest_output(n_outputs)
    /\ op' = "derest_output"
    /\ UNCHANGED <<a, b, exponent, W, derest, ext>>

NextShape ==
    \/ FromShape
    \/ DerestOutput

\* the constructors of intervals
SpecShape == InitShape /\ [][NextShape]_vars

InitNorm == InitWith(NormTensors)

\* a.op_norm(input_shape, local_range, k, alpha, beta), a the point
\* activations of the channels at one position
Norm ==
    /\ op = "init"
    /\ \E cls \in NeutralClasses, local_range \in 1..MaxRange,
          k \in NormKs, alpha \in NormAlphas, beta \in 1..MaxBeta :
        /\ args' = [cls |-> cls, local_range |-> local_range, k |-> k,
                    alpha |-> alpha, beta |-> beta]
        /\ npRes' = NpInterval_op_norm(a, Len(a.lower), local_range, k, alpha, beta)
        /\ thRes' = TheanoInterval_op_norm(cls, a, Len(a.lower), local_range, k, alpha, beta)
    /\ op' = "norm"
    /\ UNCHANGED <<a, b, exponent, W, derest, ext>>

NextNorm == Norm

\* the LRN rule on the point activations of the channels at one position
SpecNorm == InitNorm /\ [][NextNorm]_vars

InitPool == InitWith(PoolActivations)

\* d_pool(output, activation, shp, poolsize, stride, padding, mode='max')
MaxPoolDerivative ==
    /\ op = "init"
    /\ \E cfg \in {c \in PoolConfigs : c.input_shape[1] * c.input_shape[2] = Len(a.lower)} :
        \E output \in PoolImpacts(PoolOutputs(cfg)) :
            /\ args' = [input_shape |-> cfg.input_shape, poolsize |-> cfg.poolsize,
                        stride |-> cfg.stride, padding |-> cfg.padding]
            /\ b' = output
            /\ npRes' = NpInterval_op_d_max_pool(output, a, cfg.input_shape, cfg.poolsize,
                                                 cfg.stride, cfg.padding)
            /\ thRes' = d_pool(output, a, cfg.input_shape, cfg.poolsize,
                               cfg.stride, cfg.padding, "max")
    /\ op' = "d_max_pool"
    /\ UNCHANGED <<a, exponent, W, derest, ext>>

\* d_pool(output, activation, shp, poolsize, stride, padding, mode='avg')
AvgPoolDerivative ==
    /\ op = "init"
    /\ \E cfg \in {c \in PoolConfigs : c.input_shape[1] * c.input_shape[2] = Len(a.lower)} :
        \E output \in PoolImpacts(PoolOutputs(cfg)) :
            /\ args' = [input_shape |-> cfg.input_shape, poolsize |-> cfg.poolsize,
                        stride |-> cfg.stride, padding |-> cfg.padding]
            /\ b' = output
            /\ npRes' = NpInterval_op_d_avg_pool(output, a, cfg.input_shape, cfg.poolsize,
                                                 cfg.stride, cfg.padding)
            /\ thRes' = d_pool(output, a, cfg.input_shape, cfg.poolsize,
                               cfg.stride, cfg.padding, "avg")
    /\ op' = "d_avg_pool"
    /\ UNCHANGED <<a, exponent, W, derest, ext>>

NextPool == MaxPoolDerivative \/ AvgPoolDerivative

\* the impact rules of the pooling layers
SpecPool == InitPool /\ [][NextPool]_vars

InitHeap ==
    /\ op = "init"
    /\ a = NoOperand
    /\ b = NoOperand
    /\ exponent = 0
    /\ W = <<>>
    /\ args = NoArgs
    /\ npRes = NoResult
    /\ thRes = NoResult
    /\ derest = NoRun
    /\ heap = EmptyHeap
    /\ sender = NoRun
    /\ dnorm = NoRun
    /\ network = NoRun

\* x = NpInterval(lower, upper) and other = NpInterval(o_lower, o_upper), each
\* bound an array of its own
HeapConstruct ==
    /\ op = "init"
    /\ \E t \in HeapTensors, o \in HeapPairs :
        LET nx == NewInterval(heap.arrays, t.lower, t.upper)
            no == NewInterval(nx.arrays, <<o[1]>>, <<o[2]>>)
        IN  heap' = [heap EXCEPT !.arrays = no.arrays, !.x = nx.ref, !.other = no.ref]
    /\ op' = "new"
    /\ UNCHANGED <<a, b, exponent, W, args, npRes, thRes, derest, sender, dnorm, network>>

\* x = NpInterval.derest_output(n_outputs) and other = NpInterval(o_lower, o_upper)
HeapDerestOutput ==
    /\ op = "init"
    /\ \E n_outputs \in 1..MaxShape, o \in HeapPairs :
        LET nx == DerestOutputRef(heap.arrays, n_outputs)
            no == NewInterval(nx.arrays, <<o[1]>>, <<o[2]>>)
        IN  heap' = [heap EXCEPT !.arrays = no.arrays, !.x = nx.ref, !.other = no.ref]
    /\ op' = "new"
    /\ UNCHANGED <<a, b, exponent, W, args, npRes, thRes, derest, sender, dnorm, network>>

\* x[at] = other
HeapSetItem ==
    /\ op = "new"
    /\ \E at \in 1..Len(heap.arrays[heap.x.lower]) :
        heap' = [heap EXCEPT !.arrays = NpInterval_setitem(heap.arrays, heap.x, at, heap.other),
                             !.at = at]
    /\ op' = "setitem"
    /\ UNCHANGED <<a, b, exponent, W, args, npRes, thRes, derest, sender, dnorm, network>>

\* res = x.operation(other): the bounds of the result are arrays the operation
\* allocates (numpy.minimum, numpy.negative, ... return new arrays)
HeapOperation ==
    /\ op = "new"
    /\ \E name \in HeapOperations, der \in DerBounds :
        LET value == OperationValue(name, Deref(heap.arrays, heap.x),
                                    Deref(heap.arrays, heap.other), der)
            nr == NewInterval(heap.arrays, value.lower, value.upper)
        IN  /\ heap' = IF value.err = ""
                       THEN [heap EXCEPT !.arrays = nr.arrays, !.res = nr.ref]
                       ELSE [heap EXCEPT !.err = value.err]
            /\ op' = name
    /\ UNCHANGED <<a, b, exponent, W, args, npRes, thRes, derest, sender, dnorm, network>>

NextHeap ==
    \/ HeapConstruct
    \/ HeapDerestOutput
    \/ HeapSetItem
    \/ HeapOperation

\* NpInterval objects and the arrays they share
SpecHeap == InitHeap /\ [][NextHeap]_vars

InitSender ==
    /\ op = "init"
    /\ a = NoOperand
    /\ b = NoOperand
    /\ exponent = 0
    /\ W = <<>>
    /\ args = NoArgs
    /\ npRes = NoResult
    /\ thRes = NoResult
    /\ derest = NoRun
    /\ heap = NoRun
    /\ \E layers \in SenderNetworks, config \in SenderConfigs :
        sender = [phase |-> "sender", before |-> layers, weighted_layers |-> layers,
                  config |-> config, layer_id |-> 0, i |-> 0, run |-> NoRun, err |-> ""]
    /\ dnorm = NoRun
    /\ network = NoRun

\* simple_neuron_deleter(network, config)
SimpleNeuronDeleter ==
    /\ op = "init"
    /\ LET run == simple_neuron_deleter(sender.weighted_layers, sender.config)
       IN  sender' = [sender EXCEPT !.run = run,
                                    !.weighted_layers = run.weighted_layers,
                                    !.err = run.err]
    /\ op' = "simple_neuron_deleter"
    /\ UNCHANGED <<a, b, exponent, W, args, npRes, thRes, derest, heap, dnorm, network>>

\* delete_row(layer, i) for a row i of a fully connected layer
DeleteRow ==
    /\ op = "init"
    /\ \E n \in 1..Len(sender.weighted_layers) :
        /\ sender.weighted_layers[n].kind = "FullyConnectedLayer"
        /\ \E i \in 0..(Len(sender.weighted_layers[n].W) - 1) :
            LET done == delete_row(sender.weighted_layers[n], i)
            IN  sender' = [sender EXCEPT !.weighted_layers[n] = done.layer,
                                         !.layer_id = n - 1, !.i = i, !.err = done.err]
    /\ op' = "delete_row"
    /\ UNCHANGED <<a, b, exponent, W, args, npRes, thRes, derest, heap, dnorm, network>>

\* delete_column(layer, i) for a column i of a fully connected layer
DeleteColumn ==
    /\ op = "init"
    /\ \E n \in 1..Len(sender.weighted_layers) :
        /\ sender.weighted_layers[n].kind = "FullyConnectedLayer"
        /\ \E i \in 0..(Len(sender.weighted_layers[n].W[1]) - 1) :
            LET done == delete_column(sender.weighted_layers[n], i)
            IN  sender' = [sender EXCEPT !.weighted_layers[n] = done.layer,
                                         !.layer_id = n - 1, !.i = i, !.err = done.err]
    /\ op' = "delete_column"
    /\ UNCHANGED <<a, b, exponent, W, args, npRes, thRes, derest, heap, dnorm, network>>

NextSender ==
    \/ SimpleNeuronDeleter
    \/ DeleteRow
    \/ DeleteColumn

\* simple_neuron_deleter, delete_row and delete_column on a network's layers
SpecSender == InitSender /\ [][NextSender]_vars

\* op_d_norm(activation, input_shape, local_range, k, alpha, beta) is called:
\* activation_sqares = activation.square(), local_range /= 2
InitDNorm ==
    /\ op = "init"
    /\ a = NoOperand
    /\ b = NoOperand
    /\ exponent = 0
    /\ W = <<>>
    /\ args = NoArgs
    /\ npRes = NoResult
    /\ thRes = NoResult
    /\ derest = NoRun
    /\ heap = NoRun
    /\ sender = NoRun
    /\ \E activation \in DNormActivations, n \in 1..MaxRange,
          k \in NormKs, alpha \in NormAlphas :
        dnorm = [phase |-> "channel", activation |-> activation,
                 activation_sqares |-> NpInterval_square(activation),
                 n |-> n, local_range |-> n \div 2, k |-> k, alpha |-> alpha,
                 channel |-> 0, i |-> 0, C |-> NoResult, removed |-> NoResult]
    /\ network = NoRun

\* the body of the outer loop for one channel up to the not_eq loop: C is
\* built and the eq case adds its term to the result
DNormChannel ==
    /\ dnorm.phase = "channel"
    /\ dnorm.channel < Len(dnorm.activation.lower)
    /\ dnorm' = [dnorm EXCEPT
                    !.phase = "not_eq",
                    !.i = -dnorm.local_range,
                    !.C = DenominatorTerm(dnorm.activation_sqares, dnorm.channel,
                                          dnorm.local_range, dnorm.k, dnorm.alpha),
                    !.removed = NoResult]
    /\ op' = "eq"
    /\ UNCHANGED <<a, b, exponent, W, args, npRes, thRes, derest, heap, sender, network>>

\* one iteration of the not_eq loop: for a neighbour, C = C._antiadd(X2), the
\* term of the neighbour is added to the result, C += X2
DNormOffset ==
    /\ dnorm.phase = "not_eq"
    /\ dnorm.i <= dnorm.local_range
    /\ LET X2 == NpInterval_mul(Element(dnorm.activation_sqares, dnorm.channel + dnorm.i),
                                Plain(<<dnorm.alpha>>))
           without == NpInterval_antiadd(dnorm.C, X2)
       IN  dnorm' = IF IsNeighbour(Len(dnorm.activation.lower), dnorm.channel, dnorm.i)
                    THEN [dnorm EXCEPT !.i = @ + 1, !.removed = without,
                                       !.C = Interval_add("NpInterval", without, X2)]
                    ELSE [dnorm EXCEPT !.i = @ + 1, !.removed = NoResult]
    /\ op' = "not_eq"
    /\ UNCHANGED <<a, b, exponent, W, args, npRes, thRes, derest, heap, sender, network>>

\* the not_eq loop is over: the outer loop goes on with the next channel
DNormNext ==
    /\ dnorm.phase = "not_eq"
    /\ dnorm.i > dnorm.local_range
    /\ dnorm' = [dnorm EXCEPT !.phase = "channel", !.channel = @ + 1]
    /\ op' = "next"
    /\ UNCHANGED <<a, b, exponent, W, args, npRes, thRes, derest, heap, sender, network>>

NextDNorm ==
    \/ DNormChannel
    \/ DNormOffset
    \/ DNormNext

\* the main loop of NpInterval.op_d_norm
SpecDNorm == InitDNorm /\ [][NextDNorm]_vars

InitNetwork ==
    /\ op = "init"
    /\ a = NoOperand
    /\ b = NoOperand
    /\ exponent = 0
    /\ W = <<>>
    /\ args = NoArgs
    /\ npRes = NoResult
    /\ thRes = NoResult
    /\ derest = NoRun
    /\ heap = NoRun
    /\ sender = NoRun
    /\ dnorm = NoRun
    /\ \E n \in 1..MaxLayers :
        \E layers \in NetworkLayers(n), loaders \in NetworkLoaders :
            network = [phase |-> "layers", layers |-> layers, loaders |-> loaders,
                       _batch_size |-> 0, _data_loader |-> 0, links |-> 0, value |-> 0]

\* network = Network(layers)
NetworkConstruct ==
    /\ network.phase = "layers"
    /\ network' = [Network_init(network) EXCEPT !.phase = "network", !.value = 1]
    /\ op' = "Network"
    /\ UNCHANGED <<a, b, exponent, W, args, npRes, thRes, derest, heap, sender, dnorm>>

\* network.batch_size = value
NetworkSetBatchSize ==
    /\ network.phase = "network"
    /\ \E value \in 1..MaxBatch :
        network' = [batch_size_setter(network, value) EXCEPT !.value = value]
    /\ op' = "batch_size"
    /\ UNCHANGED <<a, b, exponent, W, args, npRes, thRes, derest, heap, sender, dnorm>>

\* network.data_loader = value (a loader or None)
NetworkSetDataLoader ==
    /\ network.phase = "network"
    /\ \E value \in 0..2 :
        network' = [data_loader_setter(network, value) EXCEPT !.value = value]
    /\ op' = "data_loader"
    /\ UNCHANGED <<a, b, exponent, W, args, npRes, thRes, derest, heap, sender, dnorm>>

NextNetwork ==
    \/ NetworkConstruct
    \/ NetworkSetBatchSize
    \/ NetworkSetDataLoader

\* a Network after construction, under assignments to batch_size and
\* data_loader
SpecNetwork == InitNetwork /\ [][NextNetwork]_vars

InitDerest ==
    /\ op = "init"
    /\ a = NoOperand
    /\ b = NoOperand
    /\ exponent = 0
    /\ W = <<>>
    /\ args = NoArgs
    /\ npRes = NoResult
    /\ thRes = NoResult
    /\ derest \in NewRuns
    /\ NoExt

\* the forward pass invokes the activation rule of the next layer
CountActivation ==
    /\ derest.phase = "activations"
    /\ derest' = StepActivation(derest)
    /\ UNCHANGED <<op, a, b, exponent, W, args, npRes, thRes, ext>>

\* the backward pass invokes the derivative rule of the next layer
CountDerivatives ==
    /\ derest.phase = "derivatives"
    /\ derest' = StepDerivatives(derest)
    /\ UNCHANGED <<op, a, b, exponent, W, args, npRes, thRes, ext>>

NextDerest ==
    \/ CountActivation
    \/ CountDerivatives

\* one Derest run: the forward pass, then the backward pass
SpecDerest == InitDerest /\ [][NextDerest]_vars

\* ================================================================== claims
\* the results of the operation applied last, one per realization
Results == {npRes, thRes}

\* the values k/2 between two integer bounds
Samples(lo, hi) == {Num(k, 2) : k \in (2 * lo[1])..(2 * hi[1])}

IsMinOf(x, S) == x \in S /\ \A y \in S : Le(x, y)

IsMaxOf(x, S) == x \in S /\ \A y \in S : Le(y, x)

Ordered(r) == \A i \in 1..Len(r.lower) : Le(r.lower[i], r.upper[i])

\* the corner products of element i of a and b (b.lower = b.upper when b
\* is a plain number)
CornerProducts(i) ==
    {Mul(x, y) : x \in {At(a.lower, i), At(a.upper, i)},
                 y \in {At(b.lower, i), At(b.upper, i)}}

CornerQuotients(i) ==
    {Div(x, y) : x \in {At(a.lower, i), At(a.upper, i)},
                 y \in {At(b.lower, i), At(b.upper, i)}}

\* C1: in both realizations the bounds of a * b are the minimum and the
\* maximum of the corner products (four for an interval b, two for a plain
\* b), so both bounds are attained and every product x * y of a point x of a
\* and a point y of b lies within them.
C1_MultiplyCornerRule ==
    op = "mul" =>
        \A r \in Results :
            /\ r.err = ""
            /\ Len(r.lower) = BcLen(a.lower, b.lower)
            /\ Len(r.upper) = BcLen(a.lower, b.lower)
            /\ \A i \in 1..BcLen(a.lower, b.lower) :
                /\ IsMinOf(r.lower[i], CornerProducts(i))
                /\ IsMaxOf(r.upper[i], CornerProducts(i))
                /\ \A x \in Samples(At(a.lower, i), At(a.upper, i)),
                      y \in Samples(At(b.lower, i), At(b.upper, i)) :
                        Le(r.lower[i], Mul(x, y)) /\ Le(Mul(x, y), r.upper[i])

\* a product of two intervals that both straddle zero whose lower bound is
\* the cross product a.hi * b.lo and no other corner
C1_Witness ==
    /\ op = "mul"
    /\ IsInterval(b)
    /\ Lt(a.lower[1], Zero) /\ Gt(a.upper[1], Zero)
    /\ Lt(b.lower[1], Zero) /\ Gt(b.upper[1], Zero)
    /\ npRes.err = ""
    /\ npRes.lower[1] = Mul(a.upper[1], b.lower[1])
    /\ Lt(npRes.lower[1], Mul(a.lower[1], b.upper[1]))
    /\ thRes.lower = npRes.lower

\* C2: the product of valid intervals, or of a valid interval and a plain
\* number of any sign, has lower <= upper at every element, and the
\* NpInterval construction check passes.
C2_MultiplyOrdered ==
    op = "mul" => \A r \in Results : r.err = "" /\ Ordered(r)

\* a non-degenerate interval times a negative plain number
C2_Witness ==
    /\ op = "mul"
    /\ ~IsInterval(b)
    /\ Lt(b.lower[1], Zero)
    /\ Lt(a.lower[1], a.upper[1])
    /\ npRes.err = ""
    /\ npRes.lower[1] = Mul(a.upper[1], b.lower[1])
    /\ Lt(npRes.lower[1], npRes.upper[1])

\* the plain value |x|
AbsNum(x) == IF Lt(x, Zero) THEN Negate(x) ELSE x

IsPoint(x) == x.lower = x.upper

BinaryOps == {"mul", "div", "max"}

PointOps == {"mul", "div", "neg", "square", "power", "dot", "max", "abs"}

\* the result of the operation applied last on the plain values of a and b
PlainResult ==
    CASE op = "mul" -> Map2(Mul, a.lower, b.lower)
      [] op = "div" -> Map2(Div, a.lower, b.lower)
      [] op = "max" -> Map2(Maximum, a.lower, b.lower)
      [] op = "neg" -> [i \in 1..Len(a.lower) |-> Negate(a.lower[i])]
      [] op = "square" -> [i \in 1..Len(a.lower) |-> Mul(a.lower[i], a.lower[i])]
      [] op = "power" -> [i \in 1..Len(a.lower) |-> Pow(a.lower[i], exponent)]
      [] op = "abs" -> [i \in 1..Len(a.lower) |-> AbsNum(a.lower[i])]
      [] op = "dot" -> Dot(a.lower, W)

\* C3: on point intervals every primitive (multiply, divide by a nonzero
\* point, neg, square, power with an integer exponent, dot, max, abs)
\* returns, in both realizations, the point interval of the plain-value
\* result.
C3_PointArithmetic ==
    (/\ op \in PointOps
     /\ IsPoint(a)
     /\ op \in BinaryOps => IsPoint(b)
     /\ op = "div" => b.lower[1] # Zero)
    => \A r \in Results :
        /\ r.err = ""
        /\ r.lower = PlainResult
        /\ r.upper = PlainResult

\* point(v) / point(w) with a quotient that is not an integer
C3_Witness ==
    /\ op = "div"
    /\ IsPoint(a)
    /\ IsInterval(b)
    /\ IsPoint(b)
    /\ b.lower[1] # Zero
    /\ npRes.err = ""
    /\ npRes.lower[1][2] > 1
    /\ npRes.lower = npRes.upper
    /\ thRes.lower = npRes.lower

\* the integers between two integer bounds
Range(lo, hi) == {Int2Num(k) : k \in lo[1]..hi[1]}

\* the vectors x of n integer elements with a.lower <= x <= a.upper
RECURSIVE GridPrefixes(_)
GridPrefixes(n) ==
    IF n = 0 THEN {<<>>}
    ELSE {Append(x, v) : x \in GridPrefixes(n - 1),
                         v \in Range(a.lower[n], a.upper[n])}

GridVectors == GridPrefixes(Len(a.lower))

\* the vectors x of n elements, each a bound of a
RECURSIVE CornerPrefixes(_)
CornerPrefixes(n) ==
    IF n = 0 THEN {<<>>}
    ELSE {Append(x, v) : x \in CornerPrefixes(n - 1),
                         v \in {a.lower[n], a.upper[n]}}

CornerVectors == CornerPrefixes(Len(a.lower))

\* x . M, column j, for M given by its entries
DotEntry(x, M(_, _), j) ==
    SumTo([i \in 1..Len(x) |-> Mul(x[i], M(i, j))], Len(x))

\* [lower, upper] is the exact range of x . M over the vectors x of a
ExactDot(r, M(_, _), cols) ==
    /\ r.err = ""
    /\ Len(r.lower) = cols
    /\ Len(r.upper) = cols
    /\ \A j \in 1..cols :
        LET inside == {DotEntry(x, M, j) : x \in GridVectors}
            corners == {DotEntry(x, M, j) : x \in CornerVectors}
        IN  /\ Le(r.lower[j], r.upper[j])
            /\ \A y \in inside : Le(r.lower[j], y) /\ Le(y, r.upper[j])
            /\ r.lower[j] \in corners
            /\ r.upper[j] \in corners

\* C4: a.dot(W) for a plain matrix W is exact in both realizations: every
\* x . W with a.lower <= x <= a.upper lies within the result, both bounds
\* are attained at a corner of a and lower <= upper; d_fully_connected is
\* this dot with the transposed weights, and reproduces the bounds of
\* FullyConnectedDerivativeTest.test_2D_Intervals.
C4_DotExact ==
    /\ op = "dot" =>
        \A r \in Results :
            LET M(i, j) == W[i][j] IN ExactDot(r, M, Len(W[1]))
    /\ op = "d_fully_connected" =>
        \A r \in Results :
            /\ LET M(i, j) == W[j][i] IN ExactDot(r, M, Len(W))
            /\ (a = TestDout /\ W = TestWeights) =>
                  /\ r.lower = IntSeq(<<-15, -27, 6, -33>>)
                  /\ r.upper = IntSeq(<<27, 18, 87, 12>>)

\* a dot product of a vector of two non-degenerate intervals with a column
\* that has a negative and a positive weight
C4_Witness ==
    /\ op = "dot"
    /\ Len(a.lower) >= 2
    /\ \E i, k \in 1..Len(a.lower) :
        /\ Lt(W[i][1], Zero) /\ Gt(W[k][1], Zero)
        /\ Lt(a.lower[i], a.upper[i]) /\ Lt(a.lower[k], a.upper[k])
    /\ npRes.err = ""
    /\ Lt(npRes.lower[1], npRes.upper[1])
    /\ thRes.lower = npRes.lower

\* C5: a_relu(x) is (max(x.lower, 0), max(x.upper, 0)) in both realizations,
\* with op_relu itself (TheanoInterval) and with the fallback
\* (x + |x|) * 0.5 (NpInterval).
C5_ReluActivation ==
    op = "a_relu" =>
        \A r \in Results :
            /\ r.err = ""
            /\ r.lower = [i \in 1..Len(a.lower) |-> Maximum(a.lower[i], Zero)]
            /\ r.upper = [i \in 1..Len(a.upper) |-> Maximum(a.upper[i], Zero)]

\* C6: d_relu(impact, activation) is decided per element by the activation:
\* the impact passes unchanged where activation.lower > 0, is [0, 0] where
\* activation.upper < 0, and is [min(impact.lower, 0), max(impact.upper, 0)]
\* otherwise; the tensors of ReluDerivativeTest.test_interval and
\* test_interval_negative give the bounds that these tests expect.
C6_ReluDerivative ==
    op = "d_relu" =>
        /\ thRes.err = ""
        /\ Len(thRes.lower) = BcLen(a.lower, b.lower)
        /\ Len(thRes.upper) = BcLen(a.lower, b.lower)
        /\ \A i \in 1..BcLen(a.lower, b.lower) :
            LET out_l == At(a.lower, i)
                out_u == At(a.upper, i)
                act_l == At(b.lower, i)
                act_u == At(b.upper, i)
            IN  /\ Gt(act_l, Zero) =>
                    thRes.lower[i] = out_l /\ thRes.upper[i] = out_u
                /\ Lt(act_u, Zero) =>
                    thRes.lower[i] = Zero /\ thRes.upper[i] = Zero
                /\ (Le(act_l, Zero) /\ Ge(act_u, Zero)) =>
                    /\ thRes.lower[i] = Minimum(out_l, Zero)
                    /\ thRes.upper[i] = Maximum(out_u, Zero)
        /\ (a = TestImpact /\ b = TestActivation) =>
            /\ thRes.lower = IntSeq(<<0, 0, 0, 0, 0, 13>>)
            /\ thRes.upper = IntSeq(<<0, 5, 7, 11, 13, 17>>)
        /\ (a = TestImpactNegative /\ b = TestActivation) =>
            /\ thRes.lower = IntSeq(<<0, -5, -7, -11, -13, -17>>)
            /\ thRes.upper = IntSeq(<<0, 0, 0, 0, 0, -13>>)

\* d_relu on the tensors of ReluDerivativeTest.test_interval
C6_Witness ==
    /\ op = "d_relu"
    /\ a = TestImpact
    /\ b = TestActivation
    /\ thRes.err = ""
    /\ thRes.upper[2] = Int2Num(5)

ContainsZero(lo, hi) == Le(lo, Zero) /\ Ge(hi, Zero)

\* C7: square(a) has upper = max(lo^2, hi^2) and lower = 0 whenever
\* lo <= 0 <= hi, else min(lo^2, hi^2); NpInterval and TheanoInterval return
\* the same bounds for every interval, an endpoint equal to 0 included;
\* square([-3, 2]) = [0, 9].
C7_Square ==
    op = "square" =>
        /\ \A r \in Results :
            /\ r.err = ""
            /\ Len(r.lower) = Len(a.lower)
            /\ Len(r.upper) = Len(a.lower)
            /\ \A i \in 1..Len(a.lower) :
                LET ll == Mul(a.lower[i], a.lower[i])
                    uu == Mul(a.upper[i], a.upper[i])
                IN  /\ r.upper[i] = Maximum(ll, uu)
                    /\ r.lower[i] = IF ContainsZero(a.lower[i], a.upper[i])
                                    THEN Zero ELSE Minimum(ll, uu)
        /\ npRes = thRes
        /\ a = ExampleSquare =>
            npRes.lower = IntSeq(<<0>>) /\ npRes.upper = IntSeq(<<9>>)

\* square([-3, 2]) = [0, 9]
C7_Witness ==
    /\ op = "square"
    /\ a = ExampleSquare
    /\ npRes.err = ""
    /\ npRes.lower = IntSeq(<<0>>)
    /\ thRes.upper = IntSeq(<<9>>)

\* C8: power(x, 2) returns the bounds of square(x) for every interval x, in
\* both realizations.
C8_PowerTwoIsSquare ==
    (op = "power" /\ exponent = 2) =>
        /\ npRes = NpInterval_square(a)
        /\ thRes = TheanoInterval_square(a)

\* power(x, 2) of an interval that straddles zero: lower bound 0
C8_Witness ==
    /\ op = "power"
    /\ exponent = 2
    /\ Lt(a.lower[1], Zero)
    /\ Gt(a.upper[1], Zero)
    /\ npRes.err = ""
    /\ npRes.lower[1] = Zero
    /\ thRes.lower[1] = Zero
    /\ Gt(npRes.upper[1], Zero)

\* the bounds of power(a, n) for an int n, by the sign and parity of n
PowerCase(lo, hi, n) ==
    LET le == Pow(lo, n)
        ue == Pow(hi, n)
    IN  IF n > 0 /\ n % 2 = 0
        THEN <<IF ContainsZero(lo, hi) THEN Zero ELSE Minimum(le, ue), Maximum(le, ue)>>
        ELSE IF n > 0 THEN <<le, ue>>
        ELSE IF n % 2 = 0 THEN <<Minimum(le, ue), Maximum(le, ue)>>
        ELSE <<ue, le>>

\* the points of [lo, hi] where x^n can be extremal
Extremals(lo, hi) == {lo, hi} \cup (IF ContainsZero(lo, hi) THEN {Zero} ELSE {})

C10_DivideCornerRule ==
    /\ (op = "div" /\ ~ContainsZero(b.lower[1], b.upper[1])) =>
        /\ \A r \in Results :
            /\ r.err = ""
            /\ Len(r.lower) = BcLen(a.lower, b.lower)
            /\ Len(r.upper) = BcLen(a.lower, b.lower)
            /\ \A i \in 1..BcLen(a.lower, b.lower) :
                /\ IsMinOf(r.lower[i], CornerQuotients(i))
                /\ IsMaxOf(r.upper[i], CornerQuotients(i))
        /\ npRes = thRes
    /\ op = "reciprocal" =>
        /\ npRes.err = ""
        /\ thRes.err = ""
        /\ \A i \in 1..Len(a.lower) :
            ~ContainsZero(a.lower[i], a.upper[i]) =>
                \A r \in Results :
                    /\ IsMinOf(r.lower[i], {Inv(a.lower[i]), Inv(a.upper[i])})
                    /\ IsMaxOf(r.upper[i], {Inv(a.lower[i]), Inv(a.upper[i])})

\* an interval that straddles zero divided by a negative non-degenerate
\* interval
C10_Witness ==
    /\ op = "div"
    /\ IsInterval(b)
    /\ Lt(b.lower[1], b.upper[1])
    /\ Lt(b.upper[1], Zero)
    /\ Lt(a.lower[1], Zero)
    /\ Gt(a.upper[1], Zero)
    /\ thRes.err = ""
    /\ thRes.lower[1] = Div(a.upper[1], b.upper[1])
    /\ thRes.upper[1] = Div(a.lower[1], b.upper[1])
    /\ npRes = thRes

\* the values |x| of the sampled x of [lo, hi]
AbsSamples(lo, hi) == {AbsNum(x) : x \in Samples(lo, hi)}

\* C11: abs(a) has upper = max(-lo, hi) and lower = lo when lo > 0, -hi
\* when hi < 0 and 0 otherwise; in both realizations the result is the
\* exact range of |x| over a and satisfies 0 <= lower <= upper.
C11_Abs ==
    op = "abs" =>
        \A r \in Results :
            /\ r.err = ""
            /\ Len(r.lower) = Len(a.lower)
            /\ Len(r.upper) = Len(a.lower)
            /\ \A i \in 1..Len(a.lower) :
                LET lo == a.lower[i]
                    hi == a.upper[i]
                IN  /\ r.upper[i] = Maximum(Negate(lo), hi)
                    /\ r.lower[i] = IF Gt(lo, Zero) THEN lo
                                    ELSE IF Lt(hi, Zero) THEN Negate(hi)
                                    ELSE Zero
                    /\ IsMinOf(r.lower[i], AbsSamples(lo, hi))
                    /\ IsMaxOf(r.upper[i], AbsSamples(lo, hi))
                    /\ Le(Zero, r.lower[i])
                    /\ Le(r.lower[i], r.upper[i])

\* abs of an interval that straddles zero: abs([-2, 1]) = [0, 2]
C11_Witness ==
    /\ op = "abs"
    /\ a = Itv(IntSeq(<<-2>>), IntSeq(<<1>>))
    /\ npRes = Itv(IntSeq(<<0>>), IntSeq(<<2>>))
    /\ thRes = npRes

\* the pair from_shape fills with: the explicit values, else the preset
\* chosen by the neutral flag
EffectiveLower ==
    IF args.lower_val = None THEN PresetLower(args.cls, args.neutral) ELSE args.lower_val

EffectiveUpper ==
    IF args.upper_val = None THEN PresetUpper(args.cls, args.neutral) ELSE args.upper_val

\* C12: from_shape fails with ValueError exactly when the effective pair
\* has lower > upper and is not (+inf, -inf); in every other case, the
\* pair (+inf, -inf) included, it returns the interval of the requested
\* shape filled with the pair, in both realizations and also when only
\* one of lower_val, upper_val is passed.
C12_FromShape ==
    op = "from_shape" =>
        \A r \in Results :
            IF Gt(EffectiveLower, EffectiveUpper)
                /\ ~(EffectiveLower = PosInf /\ EffectiveUpper = NegInf)
            THEN r.err = "ValueError"
            ELSE /\ r.err = ""
                 /\ r.lower = Full(args.shp, EffectiveLower)
                 /\ r.upper = Full(args.shp, EffectiveUpper)

\* C14: derest_output(n) is, in both realizations, a point interval of
\* shape (n, n) whose bounds both equal the n x n identity matrix: row i
\* has exactly one entry 1, at column i, and 0 everywhere else.
C14_DerestOutput ==
    op = "derest_output" =>
        LET n == args.n_outputs
        IN  \A r \in Results :
                /\ r.err = ""
                /\ r.lower = r.upper
                /\ Len(r.lower) = n
                /\ \A i \in 1..n :
                    /\ Len(r.lower[i]) = n
                    /\ {j \in 1..n : r.lower[i][j] = One} = {i}
                    /\ \A j \in 1..n : j # i => r.lower[i][j] = Zero

\* the seed of a network of more than one output
C14_Witness ==
    /\ op = "derest_output"
    /\ args.n_outputs > 1
    /\ npRes.err = ""
    /\ npRes.lower[2] = <<Zero, One>> \o [j \in 1..(args.n_outputs - 2) |-> Zero]
    /\ thRes = npRes

\* C13: a_dropout(x, p) and d_dropout(x, p) are the same function: both
\* return x scaled by 1 - p, that is (lo * (1 - p), hi * (1 - p)) for
\* 0 <= p <= 1 and the swapped pair when 1 - p is negative, with
\* lower <= upper; p = 0.8 maps [-3, -3] to [-0.6, -0.6] and [-5, 2] to
\* [-1, 0.4].
C13_Dropout ==
    op \in {"a_dropout", "d_dropout"} =>
        LET s == Sub(One, args.p_dropout)
            n == Len(a.lower)
        IN  \A r \in Results :
                /\ r.err = ""
                /\ Len(r.lower) = n
                /\ Len(r.upper) = n
                /\ \A i \in 1..n :
                    /\ Ge(s, Zero) =>
                        /\ r.lower[i] = Mul(a.lower[i], s)
                        /\ r.upper[i] = Mul(a.upper[i], s)
                    /\ Lt(s, Zero) =>
                        /\ r.lower[i] = Mul(a.upper[i], s)
                        /\ r.upper[i] = Mul(a.lower[i], s)
                    /\ Le(r.lower[i], r.upper[i])
                /\ (a = TestDropoutImpact /\ args.p_dropout = Num(4, 5)) =>
                    /\ r.lower[1] = Num(-3, 5) /\ r.upper[1] = Num(-3, 5)
                    /\ r.lower[6] = Int2Num(-1) /\ r.upper[6] = Num(2, 5)

\* d_dropout of the repository's test: [-5, 2] becomes [-1, 0.4]
C13_Witness ==
    /\ op = "d_dropout"
    /\ a = TestDropoutImpact
    /\ args.p_dropout = Num(4, 5)
    /\ npRes.err = ""
    /\ npRes.lower[6] = Int2Num(-1)
    /\ thRes.upper[6] = Num(2, 5)

\* the rule invocations of a complete run of n layers: the activation rules
\* in layer order, then the derivative rules in reverse layer order
ExpectedCalls(n) ==
    [k \in 1..(2 * n) |->
        IF k <= n THEN <<"count_activation", k>>
        ELSE <<"count_derivatives", 2 * n + 1 - k>>]

IsPrefix(s, t) == Len(s) <= Len(t) /\ \A k \in 1..Len(s) : s[k] = t[k]

\* C15: in one Derest run every layer's activation rule is invoked exactly
\* once, in layer order, and then every layer's derivative rule exactly
\* once, in reverse layer order; no derivative rule runs before its layer's
\* forward activation is stored, so the assert of
\* DerestReluLayer.count_derivatives never fails.
C15_DerestOrder ==
    derest.phase # "none" =>
        LET n == Len(derest.layers)
        IN  /\ IsPrefix(derest.calls, ExpectedCalls(n))
            /\ derest.phase = "done" => derest.calls = ExpectedCalls(n)
            /\ derest.phase = "derivatives" => Len(derest.calls) >= n
            /\ \A k \in 1..Len(derest.calls) :
                derest.calls[k][1] = "count_derivatives" =>
                    derest.layers[derest.calls[k][2]].activation # None
            /\ derest.err # "AssertionError"

\* a complete run of three layers with a ReLU layer in the middle
C15_Witness ==
    /\ derest.phase = "done"
    /\ Len(derest.layers) = 3
    /\ derest.layers[2].kind = "relu"
    /\ derest.layers[1].kind = "dropout"
    /\ derest.calls[4] = <<"count_derivatives", 3>>
    /\ derest.calls[6] = <<"count_derivatives", 1>>

\* the sum of the exponentials of the logits x[j] - shift, j # i
RECURSIVE ExpSumOthers(_, _, _, _)
ExpSumOthers(x, shift, i, j) ==
    IF j = 0 THEN Zero
    ELSE Add(ExpSumOthers(x, shift, i, j - 1),
             IF j # i THEN Exp(Sub(x[j], shift)) ELSE Zero)

\* softmax of the logits x at index i, evaluated on the logits shifted by
\* shift
ShiftedSoftmax(x, shift, i) ==
    Div(Exp(Sub(x[i], shift)),
        Add(ExpSumOthers(x, shift, i, Len(x)), Exp(Sub(x[i], shift))))

SquaresOver(J) ==
    SumTo([j \in 1..Len(a.lower) |->
            IF j \in J THEN Mul(a.lower[j], a.lower[j]) ELSE Zero], Len(a.lower))

\* the channels ch + d, -floor(local_range / 2) <= d <= floor(local_range / 2),
\* clipped at the first and the last channel
CentredWindow(ch) ==
    {ch + d : d \in (-(args.local_range \div 2))..(args.local_range \div 2)}
        \cap (1..Len(a.lower))

NeutralIsZero == args.cls.NEUTRAL_LOWER = Zero /\ args.cls.NEUTRAL_UPPER = Zero

\* C17: the LRN neighbour sum of channel ch ranges over a window of exactly
\* local_range channels centred on ch (clipped at the first and the last
\* channel): the contributing channels are ch + d for
\* -floor(local_range / 2) <= d <= floor(local_range / 2), for every
\* local_range, odd or even. The forward rule sums the squares of the
\* neighbours and adds the channel's own square in norm.
C17_NormWindow ==
    (op = "norm" /\ NeutralIsZero) =>
        LET n == Len(a.lower)
            s == NormSum(args.cls, a, n, args.local_range)
        IN  \A ch \in 1..n :
                /\ s.lower[ch] = SquaresOver(CentredWindow(ch) \ {ch})
                /\ s.upper[ch] = SquaresOver(CentredWindow(ch) \ {ch})
                /\ (ch - args.local_range \div 2 >= 1 /\ ch + args.local_range \div 2 <= n)
                    => Cardinality(CentredWindow(ch)) = args.local_range

\* the channels the loop of op_norm adds for channel ch: the offsets
\* -half .. local_range - 1 - half without 0
ForwardNeighbours(ch) ==
    ({ch + d : d \in (-(args.local_range \div 2))..
                     (args.local_range - 1 - args.local_range \div 2)} \ {ch})
        \cap (1..Len(a.lower))

\* C18: op_norm on a point input yields a point interval: the corners
\* coincide and every candidate extremum that passes its in-range test is
\* the point itself, so lower = upper = x / (c + alpha' * x^2)^beta with
\* c = k + alpha' * (sum of the squares of the neighbours) and
\* alpha' = alpha / local_range.
C18_NormPoint ==
    (op = "norm" /\ IsPoint(a) /\ NeutralIsZero) =>
        LET alpha2 == Div(args.alpha, Int2Num(args.local_range))
            expected ==
                [ch \in 1..Len(a.lower) |->
                    LET x == a.lower[ch]
                        c == Add(args.k, Mul(alpha2, SquaresOver(ForwardNeighbours(ch))))
                    IN  Div(x, Pow(Add(c, Mul(alpha2, Mul(x, x))), args.beta))]
        IN  /\ thRes.err = ""
            /\ thRes.lower = expected
            /\ thRes.upper = expected

\* the activation 2 of a single channel with local_range 2, k = 1,
\* alpha = 1/2, beta = 1: c = 1, the candidate sqrt(c / alpha') = 2 is the point
\* itself and passes its in-range test; the result is 2 / (1 + 4/4) = 1
C18_Witness ==
    /\ op = "norm"
    /\ NeutralIsZero
    /\ a = Itv(IntSeq(<<2>>), IntSeq(<<2>>))
    /\ args.local_range = 2 /\ args.k = One /\ args.alpha = Num(1, 2) /\ args.beta = 1
    /\ x_extr_from_c(One, Num(1, 4), 1) = a.lower[1]
    /\ InRange(a.lower[1], a.upper[1], x_extr_from_c(One, Num(1, 4), 1))
    /\ thRes.lower = <<One>>
    /\ thRes.upper = <<One>>

\* ---- pooling: the state of a d_pool call
PoolOutH == PoolOut(args.input_shape[1], args.padding[1], args.poolsize[1], args.stride[1])

PoolOutW == PoolOut(args.input_shape[2], args.padding[2], args.poolsize[2], args.stride[2])

\* the input positions <<r, c>> of the window of output (i, j); a position
\* outside 1..h \X 1..w exists only as padding
WindowInputs(i, j) ==
    {<<(i - 1) * args.stride[1] + dh - args.padding[1],
       (j - 1) * args.stride[2] + dw - args.padding[2]>> :
        dh \in 1..args.poolsize[1], dw \in 1..args.poolsize[2]}

InputPositions == (1..args.input_shape[1]) \X (1..args.input_shape[2])

\* the outputs whose window covers the input position rc
WindowsCovering(rc) ==
    {ij \in (1..PoolOutH) \X (1..PoolOutW) : rc \in WindowInputs(ij[1], ij[2])}

NonOverlapping ==
    /\ args.stride[1] >= args.poolsize[1]
    /\ args.stride[2] >= args.poolsize[2]

\* the sum of f over the finite set S
RECURSIVE SumOver(_, _)
SumOver(f, S) ==
    IF S = {} THEN Zero
    ELSE LET x == CHOOSE y \in S : TRUE IN Add(f[x], SumOver(f, S \ {x}))

\* the bound of the result / of the impact at a position / an output
InputImpact(bound, rc) == bound[Flat(rc[1], rc[2], args.input_shape[2])]

OutputImpact(bound, ij) == bound[Flat(ij[1], ij[2], PoolOutW)]

WindowArea == Int2Num(args.poolsize[1] * args.poolsize[2])

\* C19: the avg-pool derivative gives every input position the sum, over the
\* windows covering it, of impact / window area, lower and upper bounds
\* separately; with non-overlapping windows the input impacts of a window that
\* lies wholly inside the input sum up to the impact of its output.
C19_AvgPoolConservation ==
    op = "d_avg_pool" =>
        /\ thRes.err = ""
        /\ Len(thRes.lower) = args.input_shape[1] * args.input_shape[2]
        /\ Len(thRes.upper) = args.input_shape[1] * args.input_shape[2]
        /\ \A rc \in InputPositions :
            /\ InputImpact(thRes.lower, rc) =
                 SumOver([ij \in WindowsCovering(rc) |->
                             Div(OutputImpact(b.lower, ij), WindowArea)],
                         WindowsCovering(rc))
            /\ InputImpact(thRes.upper, rc) =
                 SumOver([ij \in WindowsCovering(rc) |->
                             Div(OutputImpact(b.upper, ij), WindowArea)],
                         WindowsCovering(rc))
        /\ NonOverlapping =>
            \A ij \in (1..PoolOutH) \X (1..PoolOutW) :
                WindowInputs(ij[1], ij[2]) \subseteq InputPositions =>
                    /\ SumOver([rc \in WindowInputs(ij[1], ij[2]) |->
                                   InputImpact(thRes.lower, rc)],
                               WindowInputs(ij[1], ij[2])) = OutputImpact(b.lower, ij)
                    /\ SumOver([rc \in WindowInputs(ij[1], ij[2]) |->
                                   InputImpact(thRes.upper, rc)],
                               WindowInputs(ij[1], ij[2])) = OutputImpact(b.upper, ij)

\* test_stride of AvgPoolDerivativeTest: a 5 x 5 input, poolsize (2, 2), stride
\* (3, 3) and the impacts -1, 2, -3, 4 give four whole windows with a quarter
\* of their impact at each position, row and column 3 are covered by no window
C19_Witness ==
    /\ op = "d_avg_pool"
    /\ args.input_shape = <<5, 5>> /\ args.poolsize = <<2, 2>>
    /\ args.stride = <<3, 3>> /\ args.padding = <<0, 0>>
    /\ b.lower = IntSeq(<<-1, 2, -3, 4>>)
    /\ b.upper = IntSeq(<<-1, 2, -3, 4>>)
    /\ thRes.lower = [p \in 1..25 |->
                        Div(Int2Num(<<-1, -1, 0, 2, 2,
                                      -1, -1, 0, 2, 2,
                                       0,  0, 0, 0, 0,
                                      -3, -3, 0, 4, 4,
                                      -3, -3, 0, 4, 4>>[p]), Int2Num(4))]
    /\ thRes.upper = thRes.lower

\* C20: the max-pool derivative with stride >= poolsize: every input position
\* is covered by at most one window; a position covered by no window receives
\* [0, 0]; a covered position receives either [0, 0] or the impact of its own
\* window widened to contain 0, so no other impact reaches it; the result has
\* the shape of the input, the padding receives nothing.
C20_MaxPoolFrame ==
    (op = "d_max_pool" /\ NonOverlapping) =>
        /\ thRes.err = ""
        /\ Len(thRes.lower) = args.input_shape[1] * args.input_shape[2]
        /\ Len(thRes.upper) = args.input_shape[1] * args.input_shape[2]
        /\ \A rc \in InputPositions :
            /\ Cardinality(WindowsCovering(rc)) <= 1
            /\ WindowsCovering(rc) = {} =>
                /\ InputImpact(thRes.lower, rc) = Zero
                /\ InputImpact(thRes.upper, rc) = Zero
            /\ \A ij \in WindowsCovering(rc) :
                /\ InputImpact(thRes.lower, rc)
                     \in {Zero, Minimum(Zero, OutputImpact(b.lower, ij))}
                /\ InputImpact(thRes.upper, rc)
                     \in {Zero, Maximum(Zero, OutputImpact(b.upper, ij))}

\* test_padding of MaxPoolDerivativeTest: a 3 x 3 input with activations
\* [0, 1], padding (1, 1), poolsize (2, 2), stride (3, 3) and the impacts
\* [-1, 5], [-2, 4], [-3, 3], [-4, 2]: only the four corners are non-zero
C20_Witness ==
    /\ op = "d_max_pool"
    /\ args.input_shape = <<3, 3>> /\ args.poolsize = <<2, 2>>
    /\ args.stride = <<3, 3>> /\ args.padding = <<1, 1>>
    /\ a.lower = IntSeq(<<0, 0, 0, 0, 0, 0, 0, 0, 0>>)
    /\ a.upper = IntSeq(<<1, 1, 1, 1, 1, 1, 1, 1, 1>>)
    /\ b.lower = IntSeq(<<-1, -2, -3, -4>>)
    /\ b.upper = IntSeq(<<5, 4, 3, 2>>)
    /\ thRes.lower = IntSeq(<<-1, 0, -2, 0, 0, 0, -3, 0, -4>>)
    /\ thRes.upper = IntSeq(<<5, 0, 4, 0, 0, 0, 3, 0, 2>>)

\* an interval tensor with an element that contains zero
HasZeroElement(x) ==
    \E i \in 1..Len(x.lower) : ContainsZero(x.lower[i], x.upper[i])

\* C23: divide(a, b) and reciprocal(a) with a divisor interval that contains
\* zero never raise: in both realizations the call returns an interval (with
\* infinite or NaN bounds) and no exception such as the assertion of the
\* constructor.
C23_DivideUnguarded ==
    /\ (op = "div" /\ IsInterval(b) /\ HasZeroElement(b)) =>
        (npRes.err = "" /\ thRes.err = "")
    /\ (op = "reciprocal" /\ HasZeroElement(a)) =>
        (npRes.err = "" /\ thRes.err = "")

\* C27: the fallback of a_relu, (x + |x|) * 0.5, which NpInterval takes because
\* its op_relu is not implemented, returns for every valid interval x an
\* ordered interval that contains the ReLU range: lower <= max(x.lower, 0)
\* and upper >= max(x.upper, 0), element by element.
C27_ReluFallbackSound ==
    op = "a_relu" =>
        /\ NpInterval_op_relu(a).err = "NotImplementedError"
        /\ npRes.err = ""
        /\ Len(npRes.lower) = Len(a.lower)
        /\ \A i \in 1..Len(a.lower) :
            /\ Le(npRes.lower[i], MaxZero(a.lower[i]))
            /\ Ge(npRes.upper[i], MaxZero(a.upper[i]))
            /\ Le(npRes.lower[i], npRes.upper[i])

\* x = [-2, -1]: the fallback gives [-1/2, 1/2], wider than the exact [0, 0]
C27_Witness ==
    /\ op = "a_relu"
    /\ a.lower = IntSeq(<<-2>>)
    /\ a.upper = IntSeq(<<-1>>)
    /\ npRes.lower = <<Num(-1, 2)>>
    /\ npRes.upper = <<Num(1, 2)>>

\* C22: every layer primitive NpInterval does not implement fails with
\* NotImplementedError, whatever its arguments, and never with ValueError or
\* AssertionError; the call leaves the interval as it was; a_relu catches the
\* error and returns the composed (x + |x|) * 0.5, d_relu propagates it.
C22_NotImplemented ==
    /\ [](op = "unimplemented" => npRes.err = "NotImplementedError")
    /\ [](op = "a_relu" => (NpInterval_op_relu(a).err = "NotImplementedError"
                            /\ npRes.err = ""))
    /\ [](op = "d_relu" => npRes.err = "NotImplementedError")
    /\ [][op' \in {"unimplemented", "a_relu", "d_relu"} => a' = a]_vars

\* op_d_conv called on [-1, 2] fails with NotImplementedError
C22_Witness ==
    /\ op = "unimplemented"
    /\ args.primitive = "op_d_conv"
    /\ a.lower = IntSeq(<<-1>>)
    /\ a.upper = IntSeq(<<2>>)
    /\ npRes.err = "NotImplementedError"

\* C28: after x[at] = other the lower bound of x at 'at' is other.lower and the
\* upper bound of x at 'at' is other.upper, for every x, the one returned by
\* derest_output included
C28_IndependentBounds ==
    op = "setitem" =>
        /\ heap.arrays[heap.x.lower][heap.at] = heap.arrays[heap.other.lower][1]
        /\ heap.arrays[heap.x.upper][heap.at] = heap.arrays[heap.other.upper][1]

DeletedOf(n) == {k \in 1..Len(sender.run.deleted) : sender.run.deleted[k][1] = n - 1}

\* C24: a run of simple_neuron_deleter deletes at most layer_limit * (number
\* of neurons of the layer) neurons of any single layer
C24_LayerLimit ==
    op = "simple_neuron_deleter" =>
        \A n \in 1..Len(sender.before) :
            Le(Int2Num(Cardinality(DeletedOf(n))),
               Mul(sender.config[2], Int2Num(NeuronsForLayer(sender.before)[n])))

\* the share of a deleted neuron: |w| sum of its row over |w| sum of its layer
ShareOf(d) == Num(AbsSum(sender.before[d[1] + 1].W[d[2] + 1]),
                  AbsSumTable(sender.before[d[1] + 1].W))

\* q * N with q = min(p, layer_limit) and N the neurons of the fully connected
\* layers
SenderQuota ==
    Mul(IF Lt(sender.config[2], sender.config[1]) THEN sender.config[2]
        ELSE sender.config[1],
        Int2Num(SumInts(NeuronsForLayer(sender.before))))

\* C25: neurons are deleted in ascending order of their share, never more than
\* ceil(q * N) of them, exactly ceil(q * N) when the per-layer limit blocks no
\* candidate, and none when p = 0
C25_Quota ==
    op = "simple_neuron_deleter" =>
        LET deleted == sender.run.deleted
        IN  /\ \A k \in 1..(Len(deleted) - 1) : Le(ShareOf(deleted[k]), ShareOf(deleted[k + 1]))
            /\ Len(deleted) = 0 \/ Lt(Int2Num(Len(deleted) - 1), SenderQuota)
            /\ sender.run.skipped = <<>> => Ge(Int2Num(Len(deleted)), SenderQuota)
            /\ sender.config[1] = Zero => Len(deleted) = 0

\* C26: delete_row(layer, i) with i a row index of W sets row i to zero and
\* leaves the other rows as they were; delete_column(layer, i) does the same
\* for column i
C26_DeleteRowColumn ==
    LET before == sender.before[sender.layer_id + 1].W
        after == sender.weighted_layers[sender.layer_id + 1].W
    IN  /\ op = "delete_row" =>
            /\ sender.err = ""
            /\ \A r \in 1..Len(before), c \in 1..Len(before[1]) :
                after[r][c] = IF r = sender.i + 1 THEN 0 ELSE before[r][c]
        /\ op = "delete_column" =>
            /\ sender.err = ""
            /\ \A r \in 1..Len(before), c \in 1..Len(before[1]) :
                after[r][c] = IF c = sender.i + 1 THEN 0 ELSE before[r][c]

\* the neighbours of the current channel in the window of op_d_norm
WindowNeighbours ==
    {c \in 0..(Len(dnorm.activation.lower) - 1) :
        \E i \in (-dnorm.local_range)..dnorm.local_range :
            IsNeighbour(Len(dnorm.activation.lower), dnorm.channel, i) /\ c = dnorm.channel + i}

\* k + coefficient * (sum of the squares of the window neighbours), the
\* squares taken from bound 'squares' of activation.square()
DenominatorOf(coefficient, squares) ==
    Add(dnorm.k, Mul(coefficient, SumOver([c \in WindowNeighbours |-> squares[c + 1]],
                                          WindowNeighbours)))

\* C29: at the start of every iteration of the neighbour-offset loop of
\* op_d_norm C is k + coefficient * (sum of squares of the window neighbours),
\* with the coefficient of op_norm, alpha / local_range
C29_SameCoefficient ==
    dnorm.phase = "not_eq" =>
        /\ dnorm.C.err = ""
        /\ dnorm.C.lower[1] = DenominatorOf(Div(dnorm.alpha, Int2Num(dnorm.n)),
                                            dnorm.activation_sqares.lower)
        /\ dnorm.C.upper[1] = DenominatorOf(Div(dnorm.alpha, Int2Num(dnorm.n)),
                                            dnorm.activation_sqares.upper)

\* the Network is constructed: conv layers and the attached loader carry the
\* network's batch size, every later layer is linked to its predecessor
BatchSizeSynchronized ==
    /\ \A i \in 1..Len(network.layers) :
        network.layers[i].kind = "ConvolutionalLayer" =>
            network.layers[i].batch_size = network._batch_size
    /\ network._data_loader # 0 =>
        network.loaders[network._data_loader] = network._batch_size
    /\ \A i \in 2..Len(network.layers) :
        /\ network.layers[i].input_layer = i - 1
        /\ network.layers[i].input_shape = output_shape(network.layers[i - 1])

\* C30: after construction and after every assignment to batch_size or
\* data_loader the batch size of the convolutional layers and of the attached
\* data loader is Network.batch_size and every layer i >= 1 is linked to layer
\* i - 1 with its output shape as input shape; assigning batch_size the value
\* it has changes nothing and links no layer
C30_BatchSize ==
    /\ [](network.phase = "network" => BatchSizeSynchronized)
    /\ [][(network.phase = "network" /\ op' = "batch_size"
             /\ network'.value = network._batch_size) =>
            /\ network'.links = 0
            /\ [network' EXCEPT !.links = 0, !.value = 0]
                 = [network EXCEPT !.links = 0, !.value = 0]]_vars

C30_Witness ==
    /\ op = "batch_size"
    /\ network.links = 2
    /\ network._batch_size = 2
    /\ network._data_loader = 1
    /\ network.layers[2].kind = "ConvolutionalLayer"
    /\ network.layers[3].input_shape = <<3>>

====
